---- MODULE Spec2Model ----
(***************************************************************************)
(* State-machine model of the user-management core of template-sqlc:      *)
(* value objects and entities (internal/domain/entities), the domain      *)
(* service (internal/domain/services/user_service.go), the repository     *)
(* contracts with the SQL they run (examples/postgres) and the adapters'  *)
(* error translation.                                                       *)
(*                                                                         *)
(* Strings whose content the code inspects (emails, usernames, names,     *)
(* password hashes) are sequences of one-character strings.  Time is an   *)
(* integer number of hours.  A UUID is a positive integer.                   *)
(***************************************************************************)
EXTENDS Integers, Sequences, FiniteSets, TLC

VARIABLES
    users,      \* the users table: a sequence of rows, row i has id i
    sessions,   \* the user_sessions table: a sequence of rows, row i has id i
    now,        \* the clock (time.Now() / CURRENT_TIMESTAMP), in hours
    ticks,      \* number of clock advances so far
    procs,      \* concurrent CreateUser requests: process -> its position and locals
    held,       \* a *UserSession held in memory by a caller of the session API
    call        \* the last completed service or repository call and what it returned

vars == <<users, sessions, now, ticks, procs, held, call>>

-----------------------------------------------------------------------------
(* Bounds of the model *)

NumProcs == 2
MaxUsers == 1
MaxSessions == 2
MaxSessionRows == 1
MaxTicks == 2
MaxServiceTicks == 1
NumSweepers == 2
MaxSweepRows == 1
MaxSweepTicks == 1
MaxManagedUsers == 2
MaxManagedSessions == 1
MaxEntityTicks == 1
MaxTags == 2
MaxNameLen == 4
MaxUUID == 3
MaxTimeValue == 2
NumPublishers == 2
MaxPublished == 2

-----------------------------------------------------------------------------
(* Strings *)

Str1(c) == <<c>>

Repeat(c, n) == [i \in 1..n |-> c]

\* strings.ToLower, on the alphabet the inputs use
LowerChar(c) ==
    CASE c = "A" -> "a"
      [] c = "B" -> "b"
      [] OTHER -> c

ToLower(s) == [i \in 1..Len(s) |-> LowerChar(s[i])]

RECURSIVE TrimLeft(_)
TrimLeft(s) ==
    IF Len(s) > 0 /\ Head(s) = " " THEN TrimLeft(Tail(s)) ELSE s

RECURSIVE TrimRight(_)
TrimRight(s) ==
    IF Len(s) > 0 /\ s[Len(s)] = " " THEN TrimRight(SubSeq(s, 1, Len(s) - 1)) ELSE s

\* strings.TrimSpace
TrimSpace(s) == TrimRight(TrimLeft(s))

\* number of positions of s holding character c
CountChar(s, c) == Cardinality({i \in 1..Len(s) : s[i] = c})

-----------------------------------------------------------------------------
(* Domain errors (entities/errors.go).  An error value is a record: kind   *)
(* is the Go type, what the field or resource, msg the message, wrap the  *)
(* prefix fmt.Errorf("...: %w") put around it ("" when returned bare).    *)

NoError == [kind |-> "nil", what |-> "", msg |-> "", wrap |-> ""]

NewValidationError(field, message) ==
    [kind |-> "ValidationError", what |-> field, msg |-> message, wrap |-> ""]

NewNotFoundError(resource, message) ==
    [kind |-> "NotFoundError", what |-> resource, msg |-> message, wrap |-> ""]

NewConflictError(resource, message) ==
    [kind |-> "ConflictError", what |-> resource, msg |-> message, wrap |-> ""]

NewAuthenticationError(message) ==
    [kind |-> "AuthenticationError", what |-> "", msg |-> message, wrap |-> ""]

NewAuthorizationError(message) ==
    [kind |-> "AuthorizationError", what |-> "", msg |-> message, wrap |-> ""]

NewDatabaseError(message, cause) ==
    [kind |-> "InternalError", what |-> cause, msg |-> message, wrap |-> ""]

ErrInvalidEmail == NewValidationError("email", "must be a valid email address")
ErrInvalidUsername == NewValidationError("username", "must be 3-50 characters")
ErrInvalidPasswordHash == NewValidationError("password_hash", "must be a valid hash")
ErrInvalidFirstName == NewValidationError("first_name", "must not be empty")
ErrInvalidLastName == NewValidationError("last_name", "must not be empty")
ErrInvalidUserStatus == NewValidationError("status", "must be a valid user status")
ErrInvalidUserRole == NewValidationError("role", "must be a valid user role")

ErrUserNotFound == NewNotFoundError("user", "user not found")
ErrUserAlreadyExists == NewConflictError("user", "user already exists")
ErrInvalidCredentials == NewAuthenticationError("invalid credentials")
ErrAccountSuspended == NewAuthorizationError("account suspended")
ErrAccountInactive == NewAuthorizationError("account inactive")

ErrSessionNotFound == NewNotFoundError("session", "session not found")
ErrSessionExpired == NewAuthenticationError("session expired")
ErrInvalidSessionToken == NewAuthenticationError("invalid session token")

\* fmt.Errorf(prefix + ": %w", err): the cause stays reachable (errors.As)
Wrap(prefix, err) == [err EXCEPT !.wrap = prefix]

IsNil(err) == err.kind = "nil"

-----------------------------------------------------------------------------
(* Value objects (entities/user.go).  A constructor returns [val, err].   *)

MinUsernameLen == 3
MaxUsernameLen == 50
MinPasswordHashLen == 32

\* the email-shape check NewEmail calls: one "@" with text on both sides and no blank
isValidEmail(s) ==
    /\ CountChar(s, "@") = 1
    /\ CountChar(s, " ") = 0
    /\ Len(s) >= 3
    /\ s[1] # "@"
    /\ s[Len(s)] # "@"

NewEmail(email) ==
    IF ~isValidEmail(email)
    THEN [val |-> <<>>, err |-> ErrInvalidEmail]
    ELSE [val |-> ToLower(TrimSpace(email)), err |-> NoError]

NewUsername(username) ==
    IF Len(username) < MinUsernameLen \/ Len(username) > MaxUsernameLen
    THEN [val |-> <<>>, err |-> ErrInvalidUsername]
    ELSE [val |-> TrimSpace(username), err |-> NoError]

NewPasswordHash(hash) ==
    IF Len(hash) < MinPasswordHashLen
    THEN [val |-> <<>>, err |-> ErrInvalidPasswordHash]
    ELSE [val |-> hash, err |-> NoError]

NewFirstName(name) ==
    IF Len(TrimSpace(name)) = 0
    THEN [val |-> <<>>, err |-> ErrInvalidFirstName]
    ELSE [val |-> TrimSpace(name), err |-> NoError]

NewLastName(name) ==
    IF Len(TrimSpace(name)) = 0
    THEN [val |-> <<>>, err |-> ErrInvalidLastName]
    ELSE [val |-> TrimSpace(name), err |-> NoError]

UserStatusActive == "active"
UserStatusInactive == "inactive"
UserStatusSuspended == "suspended"
UserStatusPending == "pending"

UserStatuses == {UserStatusActive, UserStatusInactive, UserStatusSuspended, UserStatusPending}

UserStatusIsValid(s) == s \in UserStatuses

UserRoleUser == "user"
UserRoleAdmin == "admin"
UserRoleModerator == "moderator"

UserRoles == {UserRoleUser, UserRoleAdmin, UserRoleModerator}

UserRoleIsValid(r) == r \in UserRoles

-----------------------------------------------------------------------------
(* The User entity (entities/user.go).                                     *)

NoTime == -1     \* a nil *time.Time
NoUser == [id |-> -1]
NoSession == [id |-> -1]

RECURSIVE SeqMax(_, _)
SeqMax(f, n) == IF n = 0 THEN 0 ELSE LET m == SeqMax(f, n - 1) IN IF f[n] > m THEN f[n] ELSE m

\* uuid.New(): a value no user, stored session or held session carries
NewUUID(userRows, sessionRows, heldSession) ==
    LET a == SeqMax([i \in 1..Len(userRows) |-> userRows[i].uuid], Len(userRows))
        b == SeqMax([i \in 1..Len(sessionRows) |-> sessionRows[i].token], Len(sessionRows))
        c == IF heldSession.id = -1 THEN 0 ELSE heldSession.token
        ab == IF a > b THEN a ELSE b
    IN 1 + (IF ab > c THEN ab ELSE c)

\* NewUser: u is the value uuid.New() returns, t the value of time.Now().
\* The id field is left at its zero value; no method of the entity sets it.
NewUser(email, username, password, firstName, lastName, status, role, tags, u, t) ==
    IF ~UserStatusIsValid(status) THEN [val |-> NoUser, err |-> ErrInvalidUserStatus]
    ELSE IF ~UserRoleIsValid(role) THEN [val |-> NoUser, err |-> ErrInvalidUserRole]
    ELSE [val |-> [id |-> 0, uuid |-> u, email |-> email, username |-> username,
                   password |-> password, firstName |-> firstName,
                   lastName |-> lastName, status |-> status, role |-> role,
                   isVerified |-> FALSE, tags |-> tags, createdAt |-> t,
                   updatedAt |-> t, lastLoginAt |-> NoTime],
          err |-> NoError]

\* IsActive that only turns suspended users away
UserIsActive_NotSuspended(u) == u.status # UserStatusSuspended

UserIsActive(u) == u.status = UserStatusActive

\* User.RecordLogin at time t
RecordLogin(u, t) == [u EXCEPT !.lastLoginAt = t, !.updatedAt = t]

\* ChangeStatus that accepts any status
ChangeStatus_NoValidation(u, status, t) ==
    [val |-> [u EXCEPT !.status = status, !.updatedAt = t], err |-> NoError]

\* User.ChangeStatus at time t: [val, err]
ChangeStatus(u, status, t) ==
    IF ~UserStatusIsValid(status) THEN [val |-> u, err |-> ErrInvalidUserStatus]
    ELSE [val |-> [u EXCEPT !.status = status, !.updatedAt = t], err |-> NoError]

\* Verify that leaves updatedAt alone
Verify_NoBump(u, t) == [u EXCEPT !.isVerified = TRUE]

\* User.Verify at time t
Verify(u, t) == [u EXCEPT !.isVerified = TRUE, !.updatedAt = t]

\* the positions of tag in a tag list
TagAt(tags, tag) == {i \in 1..Len(tags) : tags[i] = tag}

\* AddTag that appends without looking
AddTag_NoDedup(u, tag, t) == [u EXCEPT !.tags = Append(u.tags, tag), !.updatedAt = t]

\* User.AddTag at time t
AddTag(u, tag, t) ==
    IF TagAt(u.tags, tag) # {} THEN u
    ELSE [u EXCEPT !.tags = Append(u.tags, tag), !.updatedAt = t]

\* User.RemoveTag at time t: the first occurrence is cut out
RemoveTag(u, tag, t) ==
    IF TagAt(u.tags, tag) = {} THEN u
    ELSE LET i == CHOOSE k \in TagAt(u.tags, tag) : \A j \in TagAt(u.tags, tag) : k <= j IN
         [u EXCEPT !.tags = SubSeq(u.tags, 1, i - 1) \o SubSeq(u.tags, i + 1, Len(u.tags)),
                   !.updatedAt = t]

-----------------------------------------------------------------------------
(* Domain events (package events).  The random event ID and the timestamp *)
(* are not part of the record.                                             *)

EventUserCreated == "user.created"
EventUserLogin == "user.login"
EventUserLoginFail == "user.login.failed"

NewUserEvent(eventType, userID, data) ==
    [type |-> eventType, userID |-> userID, data |-> data, version |-> "1.0"]

UserCreated(userID, email, username, firstName, lastName, role, status) ==
    NewUserEvent(EventUserCreated, userID,
                 [userID |-> userID, email |-> email, username |-> username,
                  firstName |-> firstName, lastName |-> lastName,
                  role |-> role, status |-> status])

UserLoggedIn(userID, ipAddress, userAgent, device) ==
    NewUserEvent(EventUserLogin, userID,
                 [userID |-> userID, ipAddress |-> ipAddress, userAgent |-> userAgent,
                  device |-> device, success |-> TRUE])

UserLoginFailed(userID, ipAddress, userAgent, device) ==
    NewUserEvent(EventUserLoginFail, userID,
                 [userID |-> userID, ipAddress |-> ipAddress, userAgent |-> userAgent,
                  device |-> device, success |-> FALSE])

\* uuid.UUID.String(): the textual form of u
UUIDString(u) == <<"uuid", u>>

\* the "" passed as user ID when no user is known
NoUserID == <<>>

NilUUID == 0

ErrInvalidUUID == [kind |-> "ParseError", what |-> "uuid", msg |-> "invalid UUID format", wrap |-> ""]

\* uuid.Parse: [val, err]
ParseUUID(str) ==
    IF Len(str) = 2 /\ str[1] = "uuid" THEN [val |-> str[2], err |-> NoError]
    ELSE [val |-> NilUUID, err |-> ErrInvalidUUID]

-----------------------------------------------------------------------------
(* The users table and the queries on it (examples/postgres).              *)

\* CITEXT equality
CIEqual(a, b) == ToLower(a) = ToLower(b)

RowsByEmail(store, email) == {i \in 1..Len(store) : CIEqual(store[i].email, email)}

RowsByUsername(store, username) ==
    {i \in 1..Len(store) : CIEqual(store[i].username, username)}

\* the engine's verdict on INSERT INTO users: the SQLSTATE it raises, or "nil"
InsertUserError(store, u) ==
    IF RowsByEmail(store, u.email) # {} \/ RowsByUsername(store, u.username) # {}
           \/ \E i \in 1..Len(store) : store[i].uuid = u.uuid
    THEN "23505"
    ELSE IF ~isValidEmail(u.email)
            \/ Len(u.username) < MinUsernameLen \/ Len(u.username) > MaxUsernameLen
            \/ Len(u.firstName) = 0 \/ Len(u.lastName) = 0
    THEN "23514"
    ELSE "nil"

\* the table after a successful INSERT: BIGSERIAL assigns the next id
InsertUser(store, u) == Append(store, [u EXCEPT !.id = Len(store) + 1])

\* handlePostgresError without its unique-violation case
handlePostgresError_NoUniqueCase(dberr, operation) ==
    CASE dberr = "nil" -> NoError
      [] dberr = "norows" -> ErrUserNotFound
      [] dberr = "23503" ->
            NewValidationError("foreign_key", "referenced entity does not exist")
      [] dberr = "23514" ->
            NewValidationError("check_constraint", "check constraint violated")
      [] OTHER -> NewDatabaseError(operation, dberr)

\* handlePostgresError: driver error -> domain error
handlePostgresError(dberr, operation) ==
    CASE dberr = "nil" -> NoError
      [] dberr = "norows" -> ErrUserNotFound
      [] dberr = "23505" -> ErrUserAlreadyExists
      [] dberr = "23503" ->
            NewValidationError("foreign_key", "referenced entity does not exist")
      [] dberr = "23514" ->
            NewValidationError("check_constraint", "check constraint violated")
      [] OTHER -> NewDatabaseError(operation, dberr)

\* UserRepository.Create: [store, err]
RepoCreate(store, u) ==
    LET dberr == InsertUserError(store, u) IN
    [store |-> IF dberr = "nil" THEN InsertUser(store, u) ELSE store,
     err |-> handlePostgresError(dberr, "create user")]

\* UserRepository.GetByEmail / GetByUsername / GetByID: [val, err]
RepoGetByEmail(store, email) ==
    LET hits == RowsByEmail(store, email) IN
    IF hits = {} THEN [val |-> NoUser, err |-> handlePostgresError("norows", "get user")]
    ELSE [val |-> store[CHOOSE i \in hits : TRUE], err |-> NoError]

RepoGetByUsername(store, username) ==
    LET hits == RowsByUsername(store, username) IN
    IF hits = {} THEN [val |-> NoUser, err |-> handlePostgresError("norows", "get user")]
    ELSE [val |-> store[CHOOSE i \in hits : TRUE], err |-> NoError]

RepoGetByID(store, id) ==
    IF id \in 1..Len(store) THEN [val |-> store[id], err |-> NoError]
    ELSE [val |-> NoUser, err |-> handlePostgresError("norows", "get user")]

-----------------------------------------------------------------------------
(* UserService.CreateUser (services/user_service.go), cut at its            *)
(* repository calls: each piece runs atomically against the store.         *)

\* UserValidator.ValidateUserCreate: the checks the request's validate tags name
ValidateUserCreate(email, username, firstName, lastName) ==
    IF ~isValidEmail(email) THEN ErrInvalidEmail
    ELSE IF Len(username) < MinUsernameLen \/ Len(username) > MaxUsernameLen
    THEN ErrInvalidUsername
    ELSE IF Len(firstName) = 0 THEN ErrInvalidFirstName
    ELSE IF Len(lastName) = 0 THEN ErrInvalidLastName
    ELSE NoError

\* lines 47-60: validate, then look the raw email up
CreateUserCheckEmail(store, req) ==
    LET v == ValidateUserCreate(req.email, req.username, req.firstName, req.lastName) IN
    IF ~IsNil(v) THEN Wrap("validation failed", v)
    ELSE IF IsNil(RepoGetByEmail(store, req.email).err) THEN ErrUserAlreadyExists
    ELSE NoError

\* lines 61-63: look the raw username up
CreateUserCheckUsername(store, req) ==
    IF IsNil(RepoGetByUsername(store, req.username).err) THEN ErrUserAlreadyExists
    ELSE NoError

\* lines 65-105: the value objects and the entity; u is the next UUID, t the time
CreateUserBuild(req, u, t) ==
    LET email == NewEmail(req.email)
        username == NewUsername(req.username)
        firstName == NewFirstName(req.firstName)
        lastName == NewLastName(req.lastName)
        passwordHash == NewPasswordHash(req.passwordHash)
    IN
    IF ~IsNil(email.err) THEN [val |-> NoUser, err |-> Wrap("invalid email", email.err)]
    ELSE IF ~IsNil(username.err)
    THEN [val |-> NoUser, err |-> Wrap("invalid username", username.err)]
    ELSE IF ~IsNil(firstName.err)
    THEN [val |-> NoUser, err |-> Wrap("invalid first name", firstName.err)]
    ELSE IF ~IsNil(lastName.err)
    THEN [val |-> NoUser, err |-> Wrap("invalid last name", lastName.err)]
    ELSE IF ~IsNil(passwordHash.err)
    THEN [val |-> NoUser, err |-> Wrap("invalid password hash", passwordHash.err)]
    ELSE LET user == NewUser(email.val, username.val, passwordHash.val, firstName.val,
                             lastName.val, req.status, req.role, <<>>, u, t)
         IN IF ~IsNil(user.err)
            THEN [val |-> NoUser, err |-> Wrap("failed to create user", user.err)]
            ELSE user

\* lines 107-110: persist
CreateUserPersist(store, user) ==
    LET r == RepoCreate(store, user) IN
    [store |-> r.store,
     err |-> IF IsNil(r.err) THEN NoError ELSE Wrap("failed to save user", r.err)]

\* the event built without the user's identifier
CreateUserEvent_NoUserID(user) ==
    UserCreated(NoUserID, user.email, user.username, user.firstName,
                user.lastName, user.role, user.status)

\* lines 112-121: the event handed to Publish
CreateUserEvent(user) ==
    UserCreated(UUIDString(user.uuid), user.email, user.username, user.firstName,
                user.lastName, user.role, user.status)

-----------------------------------------------------------------------------
(* Inputs *)

EmailA == <<"a", "@", "x">>
EmailAUpper == <<"A", "@", "x">>
EmailB == <<"b", "@", "x">>
EmailMalformed == <<"b", "a", "d">>

UsernameBob == <<"b", "o", "b">>
UsernameAmy == <<"a", "m", "y">>

FirstNameJ == <<"J">>
LastNameD == <<"D">>

HashH == Repeat("h", MinPasswordHashLen)
HashG == Repeat("g", MinPasswordHashLen)

CreateRequests ==
    [email : {EmailA, EmailAUpper, EmailB, EmailMalformed},
     username : {UsernameBob, UsernameAmy},
     passwordHash : {HashH},
     firstName : {FirstNameJ},
     lastName : {LastNameD},
     status : {UserStatusActive},
     role : {UserRoleUser}]

NoRequest == [email |-> <<>>]

-----------------------------------------------------------------------------
(* Concurrent CreateUser requests against one store *)

Procs == 1..NumProcs

IdleProc == [pc |-> "idle", req |-> NoRequest, user |-> NoUser, err |-> NoError,
             out |-> NoUser, events |-> <<>>]

NoCall == [op |-> "none"]

NoHeld == [id |-> -1]

Finish(p, err) ==
    procs' = [procs EXCEPT ![p].pc = "done", ![p].err = err, ![p].out = NoUser]

CUStart(p, req) ==
    /\ procs[p].pc = "idle"
    /\ procs' = [procs EXCEPT ![p].pc = "checkEmail", ![p].req = req]
    /\ UNCHANGED <<users, sessions, now, ticks, held, call>>

CUCheckEmail(p) ==
    /\ procs[p].pc = "checkEmail"
    /\ LET err == CreateUserCheckEmail(users, procs[p].req) IN
       IF IsNil(err) THEN procs' = [procs EXCEPT ![p].pc = "checkUsername"]
       ELSE Finish(p, err)
    /\ UNCHANGED <<users, sessions, now, ticks, held, call>>

CUCheckUsername(p) ==
    /\ procs[p].pc = "checkUsername"
    /\ LET err == CreateUserCheckUsername(users, procs[p].req) IN
       IF IsNil(err) THEN procs' = [procs EXCEPT ![p].pc = "create"]
       ELSE Finish(p, err)
    /\ UNCHANGED <<users, sessions, now, ticks, held, call>>

CUCreate(p) ==
    /\ procs[p].pc = "create"
    /\ LET b == CreateUserBuild(procs[p].req, NewUUID(users, sessions, held), now) IN
       IF ~IsNil(b.err)
       THEN /\ Finish(p, b.err)
            /\ UNCHANGED users
       ELSE LET r == CreateUserPersist(users, b.val) IN
            /\ users' = r.store
            /\ IF IsNil(r.err)
               THEN procs' = [procs EXCEPT ![p].pc = "publish", ![p].user = b.val]
               ELSE Finish(p, r.err)
    /\ UNCHANGED <<sessions, now, ticks, held, call>>

CUPublish(p) ==
    /\ procs[p].pc = "publish"
    /\ procs' = [procs EXCEPT ![p].pc = "done", ![p].err = NoError,
                              ![p].out = procs[p].user,
                              ![p].events = <<CreateUserEvent(procs[p].user)>>]
    /\ UNCHANGED <<users, sessions, now, ticks, held, call>>

InitCreate ==
    /\ users = <<>>
    /\ sessions = <<>>
    /\ now = 0
    /\ ticks = 0
    /\ procs = [p \in Procs |-> IdleProc]
    /\ held = NoHeld
    /\ call = NoCall

NextCreate ==
    \E p \in Procs :
        \/ \E req \in CreateRequests : CUStart(p, req)
        \/ CUCheckEmail(p)
        \/ CUCheckUsername(p)
        \/ CUCreate(p)
        \/ CUPublish(p)

SpecCreate == InitCreate /\ [][NextCreate]_vars

-----------------------------------------------------------------------------
(* C1 *)

Done(p) == procs[p].pc = "done"

Succeeded(p) == Done(p) /\ IsNil(procs[p].err) /\ procs[p].out # NoUser

\* a request that no check other than uniqueness rejects
WellFormedRequest(req) ==
    /\ IsNil(ValidateUserCreate(req.email, req.username, req.firstName, req.lastName))
    /\ IsNil(CreateUserBuild(req, 0, 0).err)

SameEmail(p, q) == CIEqual(procs[p].req.email, procs[q].req.email)

SameUsername(p, q) == CIEqual(procs[p].req.username, procs[q].req.username)

Started(p) == procs[p].pc # "idle"

\* a request other than p and q that competes for the email or a username of theirs
Competitor(p, q) ==
    \E r \in Procs \ {p, q} :
        /\ Started(r)
        /\ \/ SameEmail(r, p) \/ SameUsername(r, p) \/ SameUsername(r, q)

-----------------------------------------------------------------------------
(* The UserSession entity (package entities, session file).                *)

SessionDurationShort == 24
SessionDurationMedium == 7 * 24

\* NewUserSession that ignores the duration it is given
NewUserSession_ShortOnly(userID, duration, tok, t) ==
    [id |-> 0, userID |-> userID, token |-> tok, createdAt |-> t,
     expiresAt |-> t + SessionDurationShort, isActive |-> TRUE]

\* NewUserSession: tok is the value NewSessionToken() returns, t is time.Now().
\* The id field is left at its zero value.
NewUserSession(userID, duration, tok, t) ==
    [id |-> 0, userID |-> userID, token |-> tok, createdAt |-> t,
     expiresAt |-> t + duration, isActive |-> TRUE]

\* UserSession.IsExpired at time t: time.Now().After(s.expiresAt)
IsExpired(s, t) == t > s.expiresAt

\* UserSession.IsValid at time t
IsValid(s, t) == s.isActive /\ ~IsExpired(s, t)

\* UserSession.Deactivate
Deactivate(s) == [s EXCEPT !.isActive = FALSE]

\* UserSession.Extend at time t
Extend(s, duration, t) == [s EXCEPT !.expiresAt = t + duration]

-----------------------------------------------------------------------------
(* The user_sessions table and the SessionRepository operations on it.     *)

RowsByToken(store, tok) == {i \in 1..Len(store) : store[i].token = tok}

\* the engine's verdict on INSERT INTO user_sessions: its error text, or "nil"
InsertSessionError(store, userRows, s, t) ==
    IF RowsByToken(store, s.token) # {} THEN "UNIQUE constraint failed: sessions.token"
    ELSE IF s.userID \notin 1..Len(userRows) THEN "FOREIGN KEY constraint failed"
    ELSE IF ~(s.expiresAt > t) THEN "CHECK constraint failed: valid_expires_at"
    ELSE "nil"

\* CreateUserSession: id from BIGSERIAL, created_at and is_active from the column defaults
InsertSession(store, s, t) ==
    Append(store, [id |-> Len(store) + 1, userID |-> s.userID, token |-> s.token,
                   createdAt |-> t, expiresAt |-> s.expiresAt, isActive |-> TRUE])

\* handleSessionError: driver error -> domain error
handleSessionError(dberr, operation) ==
    CASE dberr = "nil" -> NoError
      [] dberr = "norows" -> ErrSessionNotFound
      [] dberr = "UNIQUE constraint failed: sessions.token" -> ErrUserAlreadyExists
      [] OTHER -> NewDatabaseError(operation, dberr)

\* SessionRepository.Create; fault is a driver error injected by the engine, or "nil"
SessionRepoCreate(store, userRows, s, t, fault) ==
    LET dberr == IF fault # "nil" THEN fault ELSE InsertSessionError(store, userRows, s, t) IN
    [store |-> IF dberr = "nil" THEN InsertSession(store, s, t) ELSE store,
     err |-> handleSessionError(dberr, "create session")]

\* GetUserSession without its expires_at condition
GetUserSession_NoExpiryFilter(store, userRows, tok, t) ==
    {i \in RowsByToken(store, tok) :
        /\ store[i].userID \in 1..Len(userRows)
        /\ store[i].isActive}

\* GetUserSession: the rows the query selects at time t
GetUserSession(store, userRows, tok, t) ==
    {i \in RowsByToken(store, tok) :
        /\ store[i].userID \in 1..Len(userRows)
        /\ store[i].isActive
        /\ store[i].expiresAt > t}

\* SessionRepository.GetByToken: [val, err]
SessionRepoGetByToken(store, userRows, tok, t) ==
    LET hits == GetUserSession(store, userRows, tok, t) IN
    IF hits = {} THEN [val |-> NoSession, err |-> handleSessionError("norows", "get session")]
    ELSE [val |-> store[CHOOSE i \in hits : TRUE], err |-> NoError]

\* SessionRepository.DeactivateByToken: UPDATE ... SET is_active = FALSE WHERE
\* session_token = tok; an UPDATE that matches no row is not an error
SessionRepoDeactivateByToken(store, tok) ==
    [store |-> [i \in 1..Len(store) |->
                   IF store[i].token = tok THEN [store[i] EXCEPT !.isActive = FALSE]
                   ELSE store[i]],
     err |-> NoError]

\* CleanupExpiredSessions without its is_active condition
SessionRepoCleanupExpired_NoActiveFilter(store, t) ==
    LET due == {i \in 1..Len(store) : store[i].expiresAt <= t} IN
    [store |-> [i \in 1..Len(store) |->
                   IF i \in due THEN [store[i] EXCEPT !.isActive = FALSE] ELSE store[i]],
     count |-> Cardinality(due)]

\* CleanupExpiredSessions: [store, count]
SessionRepoCleanupExpired(store, t) ==
    LET due == {i \in 1..Len(store) : store[i].expiresAt <= t /\ store[i].isActive} IN
    [store |-> [i \in 1..Len(store) |->
                   IF i \in due THEN [store[i] EXCEPT !.isActive = FALSE] ELSE store[i]],
     count |-> Cardinality(due)]

\* SessionRepository.Update: overwrite of the row with the entity's id
SessionRepoUpdate(store, s) ==
    IF s.id \in 1..Len(store)
    THEN [store |-> [store EXCEPT ![s.id] = s], err |-> NoError]
    ELSE [store |-> store, err |-> handleSessionError("norows", "update session")]

-----------------------------------------------------------------------------
(* What the collaborators of a service call do wrong during it: the driver  *)
(* error the store gives the call's Create and its Update, and the error    *)
(* the publisher returns; "nil" when they work.                             *)

NoFault == [create |-> "nil", update |-> "nil", publish |-> "nil", validate |-> "nil"]
CreateFault == [NoFault EXCEPT !.create = "connection refused"]
UpdateFault == [NoFault EXCEPT !.update = "connection refused"]
PublishFault == [NoFault EXCEPT !.publish = "publisher down"]
\* the validator injected into the service rejects the updated user
ValidateFault == [NoFault EXCEPT !.validate = "rejected"]

\* EventPublisher.Publish: the error it returns
Publish(event, fault) ==
    IF fault.publish = "nil" THEN NoError
    ELSE [kind |-> "PublishError", what |-> event.type, msg |-> fault.publish, wrap |-> ""]

\* the fmt.Printf("warning: ...") lines a call writes: one per non-nil error
Warnings(errs) == SelectSeq(errs, LAMBDA e : ~IsNil(e))

-----------------------------------------------------------------------------
(* CreateUser run from its first line to its return (one caller at a time) *)

\* CreateUser that skips request validation and the value-object constructors
CreateUser_NoValidation(store, req, u, t, fault) ==
    LET user == NewUser(req.email, req.username, req.passwordHash, req.firstName,
                        req.lastName, req.status, req.role, <<>>, u, t).val
        r == CreateUserPersist(store, user)
    IN
    IF ~IsNil(r.err)
    THEN [store |-> store, user |-> NoUser, err |-> r.err, events |-> <<>>,
          steps |-> <<"userRepo.Create">>, warnings |-> <<>>]
    ELSE [store |-> r.store, user |-> user, err |-> NoError,
          events |-> <<CreateUserEvent(user)>>,
          steps |-> <<"userRepo.Create", "eventPub.Publish">>, warnings |-> <<>>]

\* [store, user, err, events]
CreateUser(store, req, u, t, fault) ==
    LET e1 == CreateUserCheckEmail(store, req)
        e2 == CreateUserCheckUsername(store, req)
        b == CreateUserBuild(req, u, t)
        r == IF fault.create = "nil" THEN CreateUserPersist(store, b.val)
             ELSE [store |-> store,
                   err |-> Wrap("failed to save user",
                                handlePostgresError(fault.create, "create user"))]
        failed(err, steps) ==
            [store |-> store, user |-> NoUser, err |-> err, events |-> <<>>,
             steps |-> steps, warnings |-> <<>>]
    IN
    IF ~IsNil(e1) THEN failed(e1, <<>>)
    ELSE IF ~IsNil(e2) THEN failed(e2, <<>>)
    ELSE IF ~IsNil(b.err) THEN failed(b.err, <<>>)
    ELSE IF ~IsNil(r.err) THEN failed(r.err, <<"userRepo.Create">>)
    ELSE [store |-> r.store, user |-> b.val, err |-> NoError,
          events |-> <<CreateUserEvent(b.val)>>,
          steps |-> <<"userRepo.Create", "eventPub.Publish">>,
          warnings |-> Warnings(<<Publish(CreateUserEvent(b.val), fault)>>)]

CreateUserCall(req, fault) ==
    /\ Len(users) < MaxUsers
    /\ LET r == CreateUser(users, req, NewUUID(users, sessions, held), now, fault) IN
       /\ users' = r.store
       /\ call' = [op |-> "CreateUser", req |-> req, fault |-> fault, usersBefore |-> users,
                   err |-> r.err, user |-> r.user, events |-> r.events,
                   warnings |-> r.warnings]
    /\ UNCHANGED <<sessions, now, ticks, procs, held>>

\* the clock advances by d hours
Tick(d) ==
    /\ ticks < MaxTicks
    /\ now' = now + d
    /\ ticks' = ticks + 1
    /\ call' = [op |-> "Tick"]
    /\ UNCHANGED <<users, sessions, procs, held>>

-----------------------------------------------------------------------------
(* The session API used directly: a caller holds one *UserSession          *)

SessionDurations == {SessionDurationShort}

SessionTickSteps == {1, SessionDurationShort}

\* UUID values a caller may present: the stored tokens and one that names no session
TokenInputs == {sessions[i].token : i \in 1..Len(sessions)} \cup {NewUUID(users, sessions, held)}

SessNew(userID, duration) ==
    /\ held = NoHeld
    /\ Len(sessions) < MaxSessionRows
    /\ held' = NewUserSession(userID, duration, NewUUID(users, sessions, held), now)
    /\ call' = [op |-> "NewUserSession"]
    /\ UNCHANGED <<users, sessions, now, ticks, procs>>

SessCreate ==
    /\ held # NoHeld
    /\ held.id = 0
    /\ LET r == SessionRepoCreate(sessions, users, held, now, "nil") IN
       /\ sessions' = r.store
       /\ call' = [op |-> "Create", err |-> r.err]
    /\ UNCHANGED <<users, now, ticks, procs, held>>

SessGetByToken(tok) ==
    /\ LET r == SessionRepoGetByToken(sessions, users, tok, now) IN
       /\ held' = IF IsNil(r.err) THEN r.val ELSE NoHeld
       /\ call' = [op |-> "GetByToken", token |-> tok, err |-> r.err, session |-> r.val]
    /\ UNCHANGED <<users, sessions, now, ticks, procs>>

SessDeactivate ==
    /\ held # NoHeld
    /\ held.isActive
    /\ held' = Deactivate(held)
    /\ call' = [op |-> "Deactivate"]
    /\ UNCHANGED <<users, sessions, now, ticks, procs>>

SessExtend(duration) ==
    /\ held # NoHeld
    /\ held' = Extend(held, duration, now)
    /\ call' = [op |-> "Extend"]
    /\ UNCHANGED <<users, sessions, now, ticks, procs>>

SessUpdate ==
    /\ held # NoHeld
    /\ LET r == SessionRepoUpdate(sessions, held) IN
       /\ sessions' = r.store
       /\ call' = [op |-> "Update", err |-> r.err]
    /\ UNCHANGED <<users, now, ticks, procs, held>>

SessDeactivateByToken(tok) ==
    /\ LET r == SessionRepoDeactivateByToken(sessions, tok) IN
       /\ sessions' = r.store
       /\ call' = [op |-> "DeactivateByToken", token |-> tok, err |-> r.err]
    /\ UNCHANGED <<users, now, ticks, procs, held>>

SessCleanupExpired ==
    /\ LET r == SessionRepoCleanupExpired(sessions, now) IN
       /\ sessions' = r.store
       /\ call' = [op |-> "CleanupExpired", count |-> r.count, before |-> sessions]
    /\ UNCHANGED <<users, now, ticks, procs, held>>

SessionUserRequest ==
    [email |-> EmailA, username |-> UsernameBob, passwordHash |-> HashH,
     firstName |-> FirstNameJ, lastName |-> LastNameD,
     status |-> UserStatusActive, role |-> UserRoleUser]

\* the store holds one user, created at time 0
InitSession ==
    /\ users = CreateUser(<<>>, SessionUserRequest, 1, 0, NoFault).store
    /\ sessions = <<>>
    /\ now = 0
    /\ ticks = 0
    /\ procs = [p \in Procs |-> IdleProc]
    /\ held = NoHeld
    /\ call = NoCall

NextSession ==
    \/ \E d \in SessionDurations : SessNew(1, d)
    \/ SessCreate
    \/ \E tok \in TokenInputs : SessGetByToken(tok)
    \/ SessDeactivate
    \/ \E d \in SessionDurations : SessExtend(d)
    \/ SessUpdate
    \/ \E tok \in TokenInputs : SessDeactivateByToken(tok)
    \/ SessCleanupExpired
    \/ \E d \in SessionTickSteps : Tick(d)

SpecSession == InitSession /\ [][NextSession]_vars

-----------------------------------------------------------------------------
(* UserService.AuthenticateUser, VerifySession and Logout                   *)
(* (services/user_service.go), each run from its first line to its return   *)
(* at one instant t.                                                        *)

\* UserRepository.VerifyCredentials: looks the email up and compares the hash;
\* every mismatch is the same authentication error
VerifyCredentials(store, email, password) ==
    LET hits == {i \in RowsByEmail(store, email) : store[i].password = password} IN
    IF hits = {} THEN [val |-> NoUser, err |-> ErrInvalidCredentials]
    ELSE [val |-> store[CHOOSE i \in hits : TRUE], err |-> NoError]

\* UserRepository.Update: overwrite of the row with the entity's id; fault is a
\* driver error injected by the engine, or "nil"
RepoUpdate(store, user, fault) ==
    IF fault # "nil" THEN [store |-> store, err |-> handlePostgresError(fault, "update user")]
    ELSE IF user.id \notin 1..Len(store)
    THEN [store |-> store, err |-> handlePostgresError("norows", "update user")]
    ELSE [store |-> [store EXCEPT ![user.id] = user], err |-> NoError]

\* UpdateUserStatus: UPDATE users SET status, updated_at WHERE id
UpdateUserStatus(store, id, status, t) ==
    [i \in 1..Len(store) |->
        IF store[i].id = id THEN [store[i] EXCEPT !.status = status, !.updatedAt = t]
        ELSE store[i]]

\* AuthenticateUser: [users, sessions, session, err, events, steps]; tok is the
\* token NewSessionToken() returns, fault the driver errors injected into
\* sessionRepo.Create and userRepo.Update, steps the side effects in program order
AuthenticateUser(userRows, sessionRows, email, password, ipAddress, userAgent, tok, t, fault) ==
    LET emailEntity == NewEmail(email)
        cred == VerifyCredentials(userRows, emailEntity.val, password)
        user == cred.val
        session == NewUserSession(user.id, SessionDurationMedium, tok, t)
        saved == SessionRepoCreate(sessionRows, userRows, session, t, fault.create)
        updated == RepoUpdate(userRows, RecordLogin(user, t), fault.update)
        failed(err, evs, steps) ==
            [users |-> userRows, sessions |-> sessionRows, session |-> NoSession,
             err |-> err, events |-> evs, steps |-> steps, warnings |-> <<>>]
    IN
    IF ~IsNil(emailEntity.err) THEN failed(ErrInvalidCredentials, <<>>, <<>>)
    ELSE IF ~IsNil(cred.err)
    THEN failed(ErrInvalidCredentials,
                <<UserLoginFailed(NoUserID, ipAddress, userAgent, "unknown")>>,
                <<"eventPub.Publish">>)
    ELSE IF ~UserIsActive(user)
    THEN failed(IF user.status = UserStatusSuspended THEN ErrAccountSuspended
                ELSE ErrAccountInactive,
                <<UserLoginFailed(UUIDString(user.uuid), ipAddress, userAgent,
                                  "inactive_account")>>,
                <<"eventPub.Publish">>)
    ELSE IF ~IsNil(saved.err)
    THEN failed(Wrap("failed to create session", saved.err), <<>>, <<"sessionRepo.Create">>)
    ELSE [users |-> updated.store, sessions |-> saved.store, session |-> session,
          err |-> NoError,
          events |-> <<UserLoggedIn(UUIDString(user.uuid), ipAddress, userAgent, "unknown")>>,
          steps |-> <<"sessionRepo.Create", "user.RecordLogin", "userRepo.Update",
                      "eventPub.Publish">>,
          warnings |-> Warnings(<<updated.err,
                                  Publish(UserLoggedIn(UUIDString(user.uuid), ipAddress,
                                                       userAgent, "unknown"), fault)>>)]

\* VerifySession that does not look at the owner's status
VerifySession_NoStatusCheck(userRows, sessionRows, token, t) ==
    LET parsed == ParseUUID(token)
        got == SessionRepoGetByToken(sessionRows, userRows, parsed.val, t)
        owner == RepoGetByID(userRows, got.val.userID)
    IN
    IF ~IsNil(parsed.err) \/ ~IsNil(got.err) \/ ~IsNil(owner.err)
    THEN [session |-> NoSession, user |-> NoUser, err |-> ErrSessionNotFound]
    ELSE [session |-> got.val, user |-> owner.val, err |-> NoError]

\* VerifySession: [session, user, err]
VerifySession(userRows, sessionRows, token, t) ==
    LET parsed == ParseUUID(token)
        got == SessionRepoGetByToken(sessionRows, userRows, parsed.val, t)
        session == got.val
        owner == RepoGetByID(userRows, session.userID)
        failed(err) == [session |-> NoSession, user |-> NoUser, err |-> err]
    IN
    IF ~IsNil(parsed.err) THEN failed(ErrInvalidSessionToken)
    ELSE IF ~IsNil(got.err) THEN failed(ErrSessionNotFound)
    ELSE IF ~IsValid(session, t)
    THEN failed(IF IsExpired(session, t) THEN ErrSessionExpired ELSE ErrSessionNotFound)
    ELSE IF ~IsNil(owner.err) THEN failed(Wrap("user not found", owner.err))
    ELSE IF ~UserIsActive(owner.val) THEN failed(ErrAccountInactive)
    ELSE [session |-> session, user |-> owner.val, err |-> NoError]

\* Logout that returns without calling the repository
Logout_NoDeactivate(sessionRows, token) ==
    [sessions |-> sessionRows,
     err |-> IF IsNil(ParseUUID(token).err) THEN NoError ELSE ErrInvalidSessionToken]

\* Logout: [sessions, err]
Logout(sessionRows, token) ==
    LET parsed == ParseUUID(token)
        r == SessionRepoDeactivateByToken(sessionRows, parsed.val)
    IN
    IF ~IsNil(parsed.err) THEN [sessions |-> sessionRows, err |-> ErrInvalidSessionToken]
    ELSE IF ~IsNil(r.err)
    THEN [sessions |-> sessionRows, err |-> Wrap("failed to logout", r.err)]
    ELSE [sessions |-> r.store, err |-> NoError]

-----------------------------------------------------------------------------
(* The service driven by one caller at a time                              *)

IPAddress == "127.0.0.1"
UserAgent == "agent"

\* the one account the callers register
ServiceRequests ==
    {r \in CreateRequests : r.email = EmailA /\ r.username = UsernameBob}


\* login attempts: the right credentials (with and without a failing store), the
\* registered email in another case, a wrong password, an unknown email and a
\* malformed email
AuthInputs ==
    {[email |-> EmailA, password |-> HashH, fault |-> NoFault],
     [email |-> EmailA, password |-> HashH, fault |-> CreateFault],
     [email |-> EmailA, password |-> HashH, fault |-> UpdateFault],
     [email |-> EmailA, password |-> HashH, fault |-> PublishFault],
     [email |-> EmailAUpper, password |-> HashH, fault |-> NoFault],
     [email |-> EmailA, password |-> HashG, fault |-> NoFault],
     [email |-> EmailB, password |-> HashH, fault |-> NoFault],
     [email |-> EmailMalformed, password |-> HashH, fault |-> NoFault]}

MalformedToken == <<"n", "o">>

\* the tokens a client can present: those handed out, one never issued, one malformed
TokenStrings ==
    {UUIDString(sessions[i].token) : i \in 1..Len(sessions)}
        \cup {UUIDString(NewUUID(users, sessions, held)), MalformedToken}

\* the clock step of the service runs: one hour more than the login session lasts
ServiceTickSteps == {SessionDurationMedium + 1}

SvcTick(d) ==
    /\ ticks < MaxServiceTicks
    /\ now' = now + d
    /\ ticks' = ticks + 1
    /\ call' = [op |-> "Tick"]
    /\ UNCHANGED <<users, sessions, procs, held>>

SvcUpdateUserStatus(id, status) ==
    /\ id \in 1..Len(users)
    /\ users[id].status # status
    /\ users' = UpdateUserStatus(users, id, status, now)
    /\ call' = [op |-> "UpdateUserStatus"]
    /\ UNCHANGED <<sessions, now, ticks, procs, held>>

SvcAuthenticateUser(email, password, fault) ==
    /\ Len(sessions) < MaxSessions
    /\ LET r == AuthenticateUser(users, sessions, email, password, IPAddress, UserAgent,
                                 NewUUID(users, sessions, held), now, fault) IN
       /\ users' = r.users
       /\ sessions' = r.sessions
       /\ call' = [op |-> "AuthenticateUser", email |-> email, password |-> password,
                   fault |-> fault, before |-> sessions, usersBefore |-> users,
                   session |-> r.session, err |-> r.err, events |-> r.events,
                   steps |-> r.steps, warnings |-> r.warnings]
    /\ UNCHANGED <<now, ticks, procs, held>>

SvcVerifySession(token) ==
    /\ LET r == VerifySession(users, sessions, token, now) IN
       call' = [op |-> "VerifySession", token |-> token, session |-> r.session,
                user |-> r.user, err |-> r.err]
    /\ UNCHANGED <<users, sessions, now, ticks, procs, held>>

SvcLogout(token) ==
    /\ LET r == Logout(sessions, token) IN
       /\ sessions' = r.sessions
       /\ call' = [op |-> "Logout", token |-> token, before |-> sessions, err |-> r.err]
    /\ UNCHANGED <<users, now, ticks, procs, held>>

SvcCleanupExpired ==
    /\ LET r == SessionRepoCleanupExpired(sessions, now) IN
       /\ sessions' = r.store
       /\ call' = [op |-> "CleanupExpired", count |-> r.count]
    /\ UNCHANGED <<users, now, ticks, procs, held>>

Init ==
    /\ users = <<>>
    /\ sessions = <<>>
    /\ now = 0
    /\ ticks = 0
    /\ procs = [p \in Procs |-> IdleProc]
    /\ held = NoHeld
    /\ call = NoCall

Next ==
    \/ \E req \in ServiceRequests, fault \in {NoFault, CreateFault, PublishFault} :
          CreateUserCall(req, fault)
    \/ \E id \in 1..MaxUsers, status \in UserStatuses : SvcUpdateUserStatus(id, status)
    \/ \E in \in AuthInputs : SvcAuthenticateUser(in.email, in.password, in.fault)
    \/ \E token \in TokenStrings : SvcVerifySession(token)
    \/ \E token \in TokenStrings : SvcLogout(token)
    \/ SvcCleanupExpired
    \/ \E d \in ServiceTickSteps : SvcTick(d)

Spec == Init /\ [][Next]_vars

-----------------------------------------------------------------------------
(* C5, C6, C9 *)

\* every session in sight: the held entity and the stored rows
SessionsInSight ==
    (IF held = NoHeld THEN {} ELSE {held}) \cup {sessions[i] : i \in 1..Len(sessions)}

\* C5: for every session and every instant now, IsValid() is true exactly when
\* IsActive is true and now < ExpiresAt (at now = ExpiresAt the session is already
\* invalid); a session created with duration D is invalid at every instant later
\* than its creation time plus D.
C5_ValidIffActiveAndBeforeExpiry ==
    \A s \in SessionsInSight :
        /\ IsValid(s, now) <=> (s.isActive /\ now < s.expiresAt)
        /\ (s.expiresAt = s.createdAt + SessionDurationShort
              /\ now > s.createdAt + SessionDurationShort) => ~IsValid(s, now)

SessionOperations == {"Deactivate", "Extend", "Update", "CleanupExpired", "Tick"}

\* C6: once a session's IsValid() has become false, because Deactivate was called
\* or because the clock passed ExpiresAt, no session operation (Deactivate, Extend,
\* repository Update, CleanupExpired) nor the passing of time makes it true again.
C6_InvalidIsTerminal ==
    [][ (call'.op \in SessionOperations /\ held # NoHeld /\ ~IsValid(held, now))
          => ~IsValid(held', now') ]_vars

\* C9: a token lookup never hands out a session at or past its ExpiresAt, whether
\* or not CleanupExpired has run: GetByToken returns a session only if a stored row
\* has the token, is active and has now < ExpiresAt, and otherwise fails with
\* NotFoundError and no session; a session created with the 1-day duration is not
\* returned 25 hours or more after its creation.
C9_ExpiredNeverHandedOut ==
    call.op = "GetByToken" =>
        LET rows == RowsByToken(sessions, call.token)
            usable == {i \in rows : sessions[i].isActive /\ now < sessions[i].expiresAt}
        IN
        /\ IsNil(call.err) =>
              \E i \in usable : call.session = sessions[i]
        /\ usable = {} =>
              call.err.kind = "NotFoundError" /\ call.session = NoSession
        /\ \A i \in rows :
              (sessions[i].expiresAt = sessions[i].createdAt + SessionDurationShort
                 /\ now >= sessions[i].createdAt + SessionDurationShort + 1)
              => ~IsNil(call.err)

\* a 1-day session still marked active in the store is looked up 25 hours after its
\* creation and not found
C9_Witness ==
    /\ call.op = "GetByToken"
    /\ call.err = ErrSessionNotFound
    /\ \E i \in RowsByToken(sessions, call.token) :
          /\ sessions[i].isActive
          /\ sessions[i].expiresAt = sessions[i].createdAt + SessionDurationShort
          /\ now = sessions[i].createdAt + SessionDurationShort + 1

-----------------------------------------------------------------------------
(* C2, C3, C4: AuthenticateUser *)

\* the stored users the last login's email and password belong to
CredentialOwners ==
    {i \in 1..Len(users) :
        CIEqual(users[i].email, call.email) /\ users[i].password = call.password}

EventsOfType(evs, type) == {k \in 1..Len(evs) : evs[k].type = type}

\* C2: whenever AuthenticateUser returns InvalidCredentials it has published
\* exactly one UserLoginFailed event and created no session, and error and event
\* are the same whatever the reason (unknown email, wrong password).
C2_InvalidCredentialsOneFailedEvent ==
    (call.op = "AuthenticateUser" /\ call.err = ErrInvalidCredentials) =>
        /\ call.events = <<UserLoginFailed(NoUserID, IPAddress, UserAgent, "unknown")>>
        /\ call.session = NoSession
        /\ sessions = call.before

\* C3: for a user whose credentials verify but whose status is inactive, suspended
\* or pending, AuthenticateUser creates no session, publishes a UserLoginFailed
\* event and no UserLoggedIn event, and returns AccountSuspended for a suspended
\* user and AccountInactive otherwise; a session is returned only for a user whose
\* status is active.
C3_OnlyActiveUsersGetSessions ==
    call.op = "AuthenticateUser" =>
        /\ \A i \in CredentialOwners :
              users[i].status # UserStatusActive =>
                  /\ sessions = call.before
                  /\ call.session = NoSession
                  /\ EventsOfType(call.events, EventUserLoginFail) # {}
                  /\ EventsOfType(call.events, EventUserLogin) = {}
                  /\ call.err = IF users[i].status = UserStatusSuspended
                                THEN ErrAccountSuspended ELSE ErrAccountInactive
        /\ call.session # NoSession =>
              \E i \in CredentialOwners :
                  users[i].status = UserStatusActive /\ call.session.userID = users[i].id

\* a pending user presented the right credentials and was turned away
C3_Witness ==
    /\ call.op = "AuthenticateUser"
    /\ call.err = ErrAccountInactive
    /\ \E i \in CredentialOwners : users[i].status = UserStatusPending

\* C4: when credentials verify and the user is active, AuthenticateUser persists
\* exactly one new session that is active, owned by that user and expires 7 days
\* after its creation time, and only after the session has been persisted does it
\* record the login and publish exactly one UserLoggedIn event; if persisting the
\* session fails it returns an error, no session, and publishes no UserLoggedIn event.
C4_SessionPersistedThenLoginRecorded ==
    call.op = "AuthenticateUser" =>
        LET owners == {i \in CredentialOwners : users[i].status = UserStatusActive}
            position(step) == {k \in 1..Len(call.steps) : call.steps[k] = step}
        IN
        /\ (owners # {} /\ call.fault.create = "nil") =>
              /\ IsNil(call.err)
              /\ Len(sessions) = Len(call.before) + 1
              /\ SubSeq(sessions, 1, Len(call.before)) = call.before
              /\ LET row == sessions[Len(sessions)] IN
                    /\ row.isActive
                    /\ row.userID \in {users[i].id : i \in owners}
                    /\ row.createdAt = now
                    /\ row.expiresAt = row.createdAt + 7 * 24
                    /\ call.session.token = row.token
                    /\ call.session.userID = row.userID
                    /\ call.session.expiresAt = row.expiresAt
              /\ position("sessionRepo.Create") = {1}
              /\ position("user.RecordLogin") # {}
              /\ \A k \in position("user.RecordLogin") \cup position("eventPub.Publish") : k > 1
              /\ Cardinality(EventsOfType(call.events, EventUserLogin)) = 1
              /\ call.fault.update = "nil" => \A i \in owners : users[i].lastLoginAt = now
        /\ (owners # {} /\ call.fault.create # "nil") =>
              /\ ~IsNil(call.err)
              /\ call.session = NoSession
              /\ EventsOfType(call.events, EventUserLogin) = {}
              /\ sessions = call.before

\* a second login of the same user succeeded and left two stored sessions
C4_Witness ==
    /\ call.op = "AuthenticateUser"
    /\ IsNil(call.err)
    /\ Len(call.before) = 1
    /\ Len(sessions) = 2
    /\ call.session.expiresAt = now + 7 * 24

-----------------------------------------------------------------------------
(* C7, C8: VerifySession *)

\* the stored sessions a token string names
RowsByTokenString(store, token) ==
    {i \in 1..Len(store) :
        IsNil(ParseUUID(token).err) /\ store[i].token = ParseUUID(token).val}

\* C7: VerifySession returns a session and a user only if the token parses as a
\* UUID, the session for that token is stored, active and unexpired at the time of
\* the check, and the owning user exists with status active; in every other case,
\* a still-valid session of a user who is no longer active included, it returns an
\* error together with neither a session nor a user.
C7_VerifySessionSafety ==
    call.op = "VerifySession" =>
        LET good == {i \in RowsByTokenString(sessions, call.token) :
                        /\ sessions[i].isActive
                        /\ now < sessions[i].expiresAt
                        /\ \E j \in 1..Len(users) :
                              users[j].id = sessions[i].userID
                                 /\ users[j].status = UserStatusActive}
        IN
        /\ IsNil(call.err) =>
              \E i \in good :
                  /\ call.session = sessions[i]
                  /\ call.user.id = sessions[i].userID
                  /\ call.user.status = UserStatusActive
        /\ good = {} => ~IsNil(call.err)
        /\ ~IsNil(call.err) => call.session = NoSession /\ call.user = NoUser

\* the session is still valid but its owner has stopped being active
C7_Witness ==
    /\ call.op = "VerifySession"
    /\ call.err = ErrAccountInactive
    /\ call.session = NoSession
    /\ \E i \in RowsByTokenString(sessions, call.token) :
          /\ IsValid(sessions[i], now)
          /\ users[sessions[i].userID].status = UserStatusSuspended

\* C8: VerifySession reports why a session is unusable: session-expired for a
\* stored session whose ExpiresAt has passed, session-not-found for a token that
\* was logged out (deactivated but unexpired) or never existed.
C8_VerifySessionTellsWhy ==
    (call.op = "VerifySession" /\ IsNil(ParseUUID(call.token).err)) =>
        LET rows == RowsByTokenString(sessions, call.token) IN
        /\ (\E i \in rows : sessions[i].isActive /\ now > sessions[i].expiresAt)
              => call.err = ErrSessionExpired
        /\ (rows = {} \/ \E i \in rows : ~sessions[i].isActive /\ now < sessions[i].expiresAt)
              => call.err = ErrSessionNotFound

-----------------------------------------------------------------------------
(* C10: Logout *)

\* C10: Logout with a well-formed token returns no error whether the token names
\* an active session, an already-deactivated session or no session at all; after
\* it the named session is inactive and every other session is as it was, and
\* repeating Logout with the same token leaves every session unchanged.
C10_LogoutIdempotent ==
    (call.op = "Logout" /\ IsNil(ParseUUID(call.token).err)) =>
        LET named == RowsByTokenString(call.before, call.token) IN
        /\ IsNil(call.err)
        /\ Len(sessions) = Len(call.before)
        /\ \A i \in 1..Len(sessions) :
              sessions[i] = IF i \in named THEN [call.before[i] EXCEPT !.isActive = FALSE]
                            ELSE call.before[i]
        /\ (\A i \in named : ~call.before[i].isActive) => sessions = call.before
        /\ Logout(sessions, call.token) = [sessions |-> sessions, err |-> NoError]

\* Logout of a session that was logged in, while another session stays active
C10_Witness ==
    /\ call.op = "Logout"
    /\ IsNil(call.err)
    /\ \E i, j \in 1..Len(sessions) :
          /\ i \in RowsByTokenString(sessions, call.token)
          /\ call.before[i].isActive /\ ~sessions[i].isActive
          /\ j # i /\ sessions[j].isActive

-----------------------------------------------------------------------------
(* C11: CleanupExpired run alone *)

\* C11: CleanupExpired deactivates exactly the sessions that are active and past
\* ExpiresAt (not now < ExpiresAt) and returns their number; it changes no session
\* that is unexpired or already inactive, and invoked again with no new expiration
\* in between it returns 0 and changes no row.
C11_CleanupExactAndIdempotent ==
    call.op = "CleanupExpired" =>
        LET due == {i \in 1..Len(call.before) :
                       call.before[i].isActive /\ ~(now < call.before[i].expiresAt)}
        IN
        /\ Len(sessions) = Len(call.before)
        /\ \A i \in 1..Len(sessions) :
              sessions[i] = IF i \in due THEN [call.before[i] EXCEPT !.isActive = FALSE]
                            ELSE call.before[i]
        /\ call.count = Cardinality(due)
        /\ SessionRepoCleanupExpired(sessions, now) = [store |-> sessions, count |-> 0]

\* a sweep deactivated an expired session that was still marked active and counted it
C11_Witness ==
    /\ call.op = "CleanupExpired"
    /\ call.count = 1
    /\ \E i \in 1..Len(sessions) :
          /\ call.before[i].isActive
          /\ ~sessions[i].isActive
          /\ sessions[i].expiresAt <= now

-----------------------------------------------------------------------------
(* CleanupExpiredSessions run by several callers at once.  The UPDATE works *)
(* on the rows its snapshot shows, one row at a time: it locks the row,     *)
(* evaluates the WHERE clause on the row's latest version and writes.       *)
(* CURRENT_TIMESTAMP is the time the statement started.                      *)

\* the WHERE clause of CleanupExpiredSessions on one row
CleanupDue(row, t) == row.expiresAt <= t /\ row.isActive

\* a row step that decides on the snapshot's version of the row
SweepRowStep_OnSnapshot(store, snap, i, t) ==
    IF CleanupDue(snap[i], t)
    THEN [store |-> [store EXCEPT ![i].isActive = FALSE], hit |-> TRUE]
    ELSE [store |-> store, hit |-> FALSE]

\* one row of the UPDATE: [store, hit]
SweepRowStep(store, snap, i, t) ==
    IF CleanupDue(store[i], t)
    THEN [store |-> [store EXCEPT ![i].isActive = FALSE], hit |-> TRUE]
    ELSE [store |-> store, hit |-> FALSE]

\* a caller of CleanupExpired: at is the statement's timestamp, snap its snapshot,
\* next the row it works on, count the rows it has changed, done their ids
Sweepers == 1..NumSweepers

IdleSweep == [pc |-> "idle", at |-> 0, snap |-> <<>>, next |-> 1, count |-> 0, done |-> {}]

SweepStart(p) ==
    /\ procs[p].pc = "idle"
    /\ procs' = [procs EXCEPT ![p] = [IdleSweep EXCEPT !.pc = "scan", !.at = now,
                                                      !.snap = sessions]]
    /\ UNCHANGED <<users, sessions, now, ticks, held, call>>

SweepRow(p) ==
    /\ procs[p].pc = "scan"
    /\ procs[p].next <= Len(procs[p].snap)
    /\ LET i == procs[p].next
           r == SweepRowStep(sessions, procs[p].snap, i, procs[p].at)
       IN
       /\ sessions' = r.store
       /\ procs' = [procs EXCEPT ![p].next = i + 1,
                                 ![p].count = @ + (IF r.hit THEN 1 ELSE 0),
                                 ![p].done = IF r.hit THEN @ \cup {i} ELSE @]
    /\ UNCHANGED <<users, now, ticks, held, call>>

SweepReturn(p) ==
    /\ procs[p].pc = "scan"
    /\ procs[p].next > Len(procs[p].snap)
    /\ procs' = [procs EXCEPT ![p].pc = "done"]
    /\ UNCHANGED <<users, sessions, now, ticks, held, call>>

\* sessionRepo.Create of a new session for user 1
SweepSessionCreate(duration) ==
    /\ Len(sessions) < MaxSweepRows
    /\ LET s == NewUserSession(1, duration, NewUUID(users, sessions, held), now)
           r == SessionRepoCreate(sessions, users, s, now, "nil")
       IN
       /\ sessions' = r.store
    /\ UNCHANGED <<users, now, ticks, procs, held, call>>

\* Logout of a stored session
SweepLogout(tok) ==
    /\ LET r == Logout(sessions, UUIDString(tok)) IN
       /\ sessions' = r.sessions
    /\ UNCHANGED <<users, now, ticks, procs, held, call>>

SweepTick(d) ==
    /\ ticks < MaxSweepTicks
    /\ now' = now + d
    /\ ticks' = ticks + 1
    /\ UNCHANGED <<users, sessions, procs, held, call>>

InitSweep ==
    /\ users = CreateUser(<<>>, SessionUserRequest, 1, 0, NoFault).store
    /\ sessions = <<>>
    /\ now = 0
    /\ ticks = 0
    /\ procs = [p \in Sweepers |-> IdleSweep]
    /\ held = NoHeld
    /\ call = NoCall

NextSweep ==
    \/ \E p \in Sweepers : SweepStart(p)
    \/ \E p \in Sweepers : SweepRow(p)
    \/ \E p \in Sweepers : SweepReturn(p)
    \/ \E d \in SessionDurations : SweepSessionCreate(d)
    \/ \E i \in 1..MaxSweepRows : i <= Len(sessions) /\ SweepLogout(sessions[i].token)
    \/ SweepTick(SessionDurationShort)

SpecSweep == InitSweep /\ [][NextSweep]_vars

\* C12: with CleanupExpired calls interleaved with each other, with session
\* creation and with logout, every session a finished sweep saw past its ExpiresAt
\* is inactive, no sweep deactivates an unexpired session, and each session a sweep
\* deactivated is counted by exactly one sweep: the returned counts sum to the
\* number of sessions the sweeps deactivated.
C12_ConcurrentSweeps ==
    LET sweepers == {p \in Sweepers : procs[p].pc # "idle"}
        finished == {p \in Sweepers : procs[p].pc = "done"}
    IN
    /\ \A p \in finished : \A i \in 1..Len(procs[p].snap) :
          sessions[i].expiresAt <= procs[p].at => ~sessions[i].isActive
    /\ \A p \in sweepers : \A i \in procs[p].done :
          /\ ~(procs[p].at < sessions[i].expiresAt)
          /\ ~sessions[i].isActive
    /\ \A p, q \in sweepers : p # q => procs[p].done \cap procs[q].done = {}
    /\ \A p \in sweepers : procs[p].count = Cardinality(procs[p].done)

\* two sweeps ran over the same expired session at once; one counted it, the other did not
C12_Witness ==
    \E p, q \in Sweepers :
        /\ p # q
        /\ procs[p].pc = "done" /\ procs[q].pc = "done"
        /\ procs[p].count = 1 /\ procs[q].count = 0
        /\ \E i \in procs[p].done :
              i <= Len(procs[q].snap) /\ CleanupDue(procs[q].snap[i], procs[q].at)

-----------------------------------------------------------------------------
(* C13: the event of CreateUser *)

\* C13: every CreateUser call that returns a user has published exactly one
\* event, of type user.created, whose UserID identifies the returned user (it is
\* the returned user's UUID, which no other returned user carries).
C13_OneCreatedEventPerUser ==
    \A p \in Procs :
        Succeeded(p) =>
            /\ Len(procs[p].events) = 1
            /\ procs[p].events[1].type = EventUserCreated
            /\ procs[p].events[1].userID = UUIDString(procs[p].out.uuid)
            /\ procs[p].events[1].data.userID = UUIDString(procs[p].out.uuid)
            /\ \A q \in Procs \ {p} :
                  Succeeded(q) => procs[q].events[1].userID # procs[p].events[1].userID

\* two concurrent calls both returned a user
C13_Witness ==
    \E p, q \in Procs :
        /\ p # q /\ Succeeded(p) /\ Succeeded(q)
        /\ Len(procs[p].events) = 1 /\ Len(procs[q].events) = 1

-----------------------------------------------------------------------------
(* UserService.GetUser, UpdateUser and ChangeUserRole                       *)
(* (services/user_service.go) and UserRepository.Delete.  An optional       *)
(* request field (a string pointer) is a set: empty when nil, else {value}. *)

EventUserUpdated == "user.updated"
EventRoleChanged == "role.changed"

\* events.UserUpdated; changes is the diff map as a set of [field, old, new]
UserUpdated(userID, changes, updatedBy) ==
    NewUserEvent(EventUserUpdated, userID,
                 [userID |-> userID, changes |-> changes, updatedBy |-> updatedBy])

\* events.RoleChanged
RoleChanged(userID, oldRole, newRole, changedBy) ==
    NewUserEvent(EventRoleChanged, userID,
                 [userID |-> userID, oldRole |-> oldRole, newRole |-> newRole,
                  changedBy |-> changedBy])

\* GetUser: [user, err]
GetUser(store, userID) ==
    LET got == RepoGetByID(store, userID) IN
    IF ~IsNil(got.err) THEN [user |-> NoUser, err |-> Wrap("failed to get user", got.err)]
    ELSE [user |-> got.val, err |-> NoError]

\* User.UpdateProfile with one name given, at time t
UpdateProfileFirstName(u, firstName, t) == [u EXCEPT !.firstName = firstName, !.updatedAt = t]
UpdateProfileLastName(u, lastName, t) == [u EXCEPT !.lastName = lastName, !.updatedAt = t]

\* UserValidator.ValidateUserUpdate: the injected validator's verdict; fault is
\* "nil" when it accepts the user
ValidateUserUpdate(user, fault) ==
    IF fault = "nil" THEN NoError ELSE NewValidationError("user", fault)

\* the value an optional field holds
Deref(opt) == CHOOSE x \in opt : TRUE

\* UpdateUser: [store, user, err, events, steps, warnings, loaded]; loaded is
\* the entity GetByID handed out, as the call left it
UpdateUser(store, req, t, fault) ==
    LET got == RepoGetByID(store, req.userID)
        user0 == got.val
        firstName == NewFirstName(Deref(req.firstName))
        user1 == IF req.firstName = {} THEN user0
                 ELSE UpdateProfileFirstName(user0, firstName.val, t)
        lastName == NewLastName(Deref(req.lastName))
        user2 == IF req.lastName = {} THEN user1
                 ELSE UpdateProfileLastName(user1, lastName.val, t)
        changes ==
            (IF req.firstName = {} THEN {}
             ELSE {[field |-> "first_name", old |-> user0.firstName, new |-> firstName.val]})
            \cup (IF req.lastName = {} THEN {}
                  ELSE {[field |-> "last_name", old |-> user1.lastName, new |-> lastName.val]})
        v == ValidateUserUpdate(user2, fault.validate)
        upd == RepoUpdate(store, user2, fault.update)
        event == UserUpdated(UUIDString(user2.uuid), changes, req.updatedBy)
        failed(err, steps, loaded) ==
            [store |-> store, user |-> NoUser, err |-> err, events |-> <<>>,
             steps |-> steps, warnings |-> <<>>, loaded |-> loaded]
    IN
    IF ~IsNil(got.err) THEN failed(Wrap("user not found", got.err), <<>>, NoUser)
    ELSE IF req.firstName # {} /\ ~IsNil(firstName.err)
    THEN failed(Wrap("invalid first name", firstName.err), <<>>, user0)
    ELSE IF req.lastName # {} /\ ~IsNil(lastName.err)
    THEN failed(Wrap("invalid last name", lastName.err), <<>>, user1)
    ELSE IF ~IsNil(v) THEN failed(Wrap("validation failed", v), <<>>, user2)
    ELSE IF ~IsNil(upd.err)
    THEN failed(Wrap("failed to update user", upd.err), <<"userRepo.Update">>, user2)
    ELSE IF changes # {}
    THEN [store |-> upd.store, user |-> user2, err |-> NoError, events |-> <<event>>,
          steps |-> <<"userRepo.Update", "eventPub.Publish">>,
          warnings |-> Warnings(<<Publish(event, fault)>>), loaded |-> user2]
    ELSE [store |-> upd.store, user |-> user2, err |-> NoError, events |-> <<>>,
          steps |-> <<"userRepo.Update">>, warnings |-> <<>>, loaded |-> user2]

\* the two ways a repository hands out an entity: built afresh from the row
\* on every read, or the stored pointer itself (MockUserRepository)
Repositories == {"database", "mock"}

\* the rows after UpdateUser has run against a repository of the given kind.
\* A mock's GetByID returns the pointer it stores, so what the call did to
\* the loaded entity is done to the stored one; its Update does nothing.
UpdateUserStore(repo, store, r) ==
    IF repo = "mock" /\ r.loaded # NoUser
    THEN [i \in 1..Len(store) |-> IF store[i].id = r.loaded.id THEN r.loaded ELSE store[i]]
    ELSE r.store

\* ChangeRole that accepts any role
ChangeRole_NoValidation(u, role, t) ==
    [val |-> [u EXCEPT !.role = role, !.updatedAt = t], err |-> NoError]

\* User.ChangeRole at time t: [val, err]
ChangeRole(u, role, t) ==
    IF ~UserRoleIsValid(role) THEN [val |-> u, err |-> ErrInvalidUserRole]
    ELSE [val |-> [u EXCEPT !.role = role, !.updatedAt = t], err |-> NoError]

\* ChangeUserRole that publishes before it writes
ChangeUserRole_PublishBeforeUpdate(store, userID, newRole, changedBy, t, fault) ==
    LET got == RepoGetByID(store, userID)
        changed == ChangeRole(got.val, newRole, t)
        upd == RepoUpdate(store, changed.val, fault.update)
        event == RoleChanged(UUIDString(changed.val.uuid), got.val.role, newRole, changedBy)
    IN
    IF ~IsNil(got.err) \/ ~IsNil(changed.err)
    THEN [store |-> store, user |-> NoUser, err |-> ErrUserNotFound, events |-> <<>>,
          steps |-> <<>>, warnings |-> <<>>]
    ELSE [store |-> upd.store,
          user |-> IF IsNil(upd.err) THEN changed.val ELSE NoUser,
          err |-> IF IsNil(upd.err) THEN NoError
                  ELSE Wrap("failed to change role", upd.err),
          events |-> <<event>>,
          steps |-> <<"eventPub.Publish", "userRepo.Update">>,
          warnings |-> Warnings(<<Publish(event, fault)>>)]

\* ChangeUserRole that returns the publisher's error
ChangeUserRole_PublishFatal(store, userID, newRole, changedBy, t, fault) ==
    LET got == RepoGetByID(store, userID)
        changed == ChangeRole(got.val, newRole, t)
        upd == RepoUpdate(store, changed.val, fault.update)
        event == RoleChanged(UUIDString(changed.val.uuid), got.val.role, newRole, changedBy)
        failed(err, steps, evs) ==
            [store |-> IF steps = <<>> THEN store ELSE upd.store, user |-> NoUser,
             err |-> err, events |-> evs, steps |-> steps, warnings |-> <<>>]
    IN
    IF ~IsNil(got.err) THEN failed(Wrap("user not found", got.err), <<>>, <<>>)
    ELSE IF ~IsNil(changed.err) THEN failed(Wrap("invalid role", changed.err), <<>>, <<>>)
    ELSE IF ~IsNil(upd.err)
    THEN failed(Wrap("failed to change role", upd.err), <<"userRepo.Update">>, <<>>)
    ELSE IF ~IsNil(Publish(event, fault))
    THEN failed(Publish(event, fault), <<"userRepo.Update", "eventPub.Publish">>, <<event>>)
    ELSE [store |-> upd.store, user |-> changed.val, err |-> NoError, events |-> <<event>>,
          steps |-> <<"userRepo.Update", "eventPub.Publish">>, warnings |-> <<>>]

\* ChangeUserRole: [store, user, err, events, steps, warnings]
ChangeUserRole(store, userID, newRole, changedBy, t, fault) ==
    LET got == RepoGetByID(store, userID)
        oldRole == got.val.role
        changed == ChangeRole(got.val, newRole, t)
        upd == RepoUpdate(store, changed.val, fault.update)
        event == RoleChanged(UUIDString(changed.val.uuid), oldRole, newRole, changedBy)
        failed(err, steps) ==
            [store |-> store, user |-> NoUser, err |-> err, events |-> <<>>,
             steps |-> steps, warnings |-> <<>>]
    IN
    IF ~IsNil(got.err) THEN failed(Wrap("user not found", got.err), <<>>)
    ELSE IF ~IsNil(changed.err) THEN failed(Wrap("invalid role", changed.err), <<>>)
    ELSE IF ~IsNil(upd.err)
    THEN failed(Wrap("failed to change role", upd.err), <<"userRepo.Update">>)
    ELSE [store |-> upd.store, user |-> changed.val, err |-> NoError, events |-> <<event>>,
          steps |-> <<"userRepo.Update", "eventPub.Publish">>,
          warnings |-> Warnings(<<Publish(event, fault)>>)]

\* PostgresUserRepository.ChangeStatus: [store, err]
PostgresChangeStatus(store, id, status, t) ==
    IF ~UserStatusIsValid(status)
    THEN [store |-> store, err |-> NewValidationError("status", "invalid user status")]
    ELSE [store |-> UpdateUserStatus(store, id, status, t), err |-> NoError]

\* PostgresUserRepository.Delete
PostgresDelete(store, id, t) == PostgresChangeStatus(store, id, UserStatusInactive, t)

\* SQLiteUserRepository.Delete: returns nil and runs no query
SQLiteDelete(store, id, t) == [store |-> store, err |-> NoError]

Adapters == {"postgres", "sqlite"}

\* UserRepository.Delete of the adapter in use
RepoDelete(adapter, store, id, t) ==
    IF adapter = "postgres" THEN PostgresDelete(store, id, t) ELSE SQLiteDelete(store, id, t)

-----------------------------------------------------------------------------
(* Account management: CreateUser, GetUser, UpdateUser, ChangeUserRole,     *)
(* AuthenticateUser and UserRepository.Delete against one store             *)

ManageRequests ==
    {r \in CreateRequests :
        \/ r.email = EmailA /\ r.username = UsernameBob
        \/ r.email = EmailB /\ r.username = UsernameAmy
        \/ r.email = EmailMalformed /\ r.username = UsernameAmy}

ManageCreateFaults == {NoFault, CreateFault, PublishFault}

FirstNameK == <<"K">>
Blank == <<" ">>
Actor == <<"a">>
\* an id beyond any the store can hold
UnknownUserID == MaxManagedUsers + 1
RoleRoot == "root"

\* profile updates of the first user: a new first name (also with a failing
\* store or publisher), the first name it was created with, both names as
\* created, no field at all, a blank first name, and an unknown user
UpdateInputs ==
    {[userID |-> 1, firstName |-> {FirstNameK}, lastName |-> {}, updatedBy |-> Actor,
      fault |-> f] : f \in {NoFault, UpdateFault, PublishFault}}
    \cup {[userID |-> 1, firstName |-> {FirstNameJ}, lastName |-> {}, updatedBy |-> Actor,
           fault |-> NoFault],
          [userID |-> 1, firstName |-> {FirstNameJ}, lastName |-> {LastNameD},
           updatedBy |-> Actor, fault |-> NoFault],
          [userID |-> 1, firstName |-> {}, lastName |-> {}, updatedBy |-> Actor,
           fault |-> NoFault],
          [userID |-> 1, firstName |-> {Blank}, lastName |-> {}, updatedBy |-> Actor,
           fault |-> NoFault],
          [userID |-> 1, firstName |-> {FirstNameK}, lastName |-> {Blank},
           updatedBy |-> Actor, fault |-> NoFault],
          [userID |-> 1, firstName |-> {FirstNameK}, lastName |-> {}, updatedBy |-> Actor,
           fault |-> ValidateFault],
          [userID |-> UnknownUserID, firstName |-> {FirstNameK}, lastName |-> {},
           updatedBy |-> Actor, fault |-> NoFault]}

\* role changes: to admin (also with a failing store or publisher), to user,
\* to a role that does not exist, and of an unknown user
RoleInputs ==
    {[userID |-> 1, role |-> UserRoleAdmin, fault |-> f] :
        f \in {NoFault, UpdateFault, PublishFault}}
    \cup {[userID |-> 1, role |-> UserRoleUser, fault |-> NoFault],
          [userID |-> 1, role |-> RoleRoot, fault |-> NoFault],
          [userID |-> UnknownUserID, role |-> UserRoleAdmin, fault |-> NoFault]}

\* logins with the right credentials, with each side effect failing in turn
ManageAuthInputs ==
    {[email |-> EmailA, password |-> HashH, fault |-> f] :
        f \in {NoFault, CreateFault, UpdateFault, PublishFault}}

MgCreateUser(req, fault) ==
    /\ Len(users) < MaxManagedUsers
    /\ LET r == CreateUser(users, req, NewUUID(users, sessions, held), now, fault) IN
       /\ users' = r.store
       /\ call' = [op |-> "CreateUser", req |-> req, fault |-> fault, usersBefore |-> users,
                   before |-> sessions, err |-> r.err, user |-> r.user,
                   events |-> r.events, steps |-> r.steps, warnings |-> r.warnings]
    /\ UNCHANGED <<sessions, now, ticks, procs, held>>

MgGetUser(id) ==
    /\ LET r == GetUser(users, id) IN
       call' = [op |-> "GetUser", id |-> id, user |-> r.user, err |-> r.err]
    /\ UNCHANGED <<users, sessions, now, ticks, procs, held>>

MgUpdateUser(in, repo) ==
    /\ repo = "mock" => in.fault.update = "nil"
    /\ LET r == UpdateUser(users, in, now, in.fault) IN
       /\ users' = UpdateUserStore(repo, users, r)
       /\ call' = [op |-> "UpdateUser", req |-> in, fault |-> in.fault, repo |-> repo,
                   usersBefore |-> users, before |-> sessions, err |-> r.err,
                   user |-> r.user, events |-> r.events, steps |-> r.steps,
                   warnings |-> r.warnings]
    /\ UNCHANGED <<sessions, now, ticks, procs, held>>

MgChangeUserRole(in) ==
    /\ LET r == ChangeUserRole(users, in.userID, in.role, Actor, now, in.fault) IN
       /\ users' = r.store
       /\ call' = [op |-> "ChangeUserRole", req |-> in, fault |-> in.fault,
                   usersBefore |-> users, before |-> sessions, err |-> r.err,
                   user |-> r.user, events |-> r.events, steps |-> r.steps,
                   warnings |-> r.warnings]
    /\ UNCHANGED <<sessions, now, ticks, procs, held>>

MgAuthenticateUser(in) ==
    /\ Len(sessions) < MaxManagedSessions
    /\ LET r == AuthenticateUser(users, sessions, in.email, in.password, IPAddress,
                                 UserAgent, NewUUID(users, sessions, held), now, in.fault) IN
       /\ users' = r.users
       /\ sessions' = r.sessions
       /\ call' = [op |-> "AuthenticateUser", req |-> in, fault |-> in.fault,
                   usersBefore |-> users, before |-> sessions, err |-> r.err,
                   session |-> r.session, events |-> r.events, steps |-> r.steps,
                   warnings |-> r.warnings]
    /\ UNCHANGED <<now, ticks, procs, held>>

MgDelete(adapter, id) ==
    /\ LET r == RepoDelete(adapter, users, id, now) IN
       /\ users' = r.store
       /\ call' = [op |-> "Delete", adapter |-> adapter, id |-> id,
                   usersBefore |-> users, err |-> r.err]
    /\ UNCHANGED <<sessions, now, ticks, procs, held>>

InitManage ==
    /\ users = <<>>
    /\ sessions = <<>>
    /\ now = 0
    /\ ticks = 0
    /\ procs = [p \in Procs |-> IdleProc]
    /\ held = NoHeld
    /\ call = NoCall

NextManage ==
    \/ \E req \in ManageRequests, fault \in ManageCreateFaults : MgCreateUser(req, fault)
    \/ \E id \in {0, 1, 2} : MgGetUser(id)
    \/ \E in \in UpdateInputs, repo \in Repositories : MgUpdateUser(in, repo)
    \/ \E in \in RoleInputs : MgChangeUserRole(in)
    \/ \E in \in ManageAuthInputs : MgAuthenticateUser(in)
    \/ \E adapter \in Adapters, id \in {1, UnknownUserID} : MgDelete(adapter, id)

SpecManage == InitManage /\ [][NextManage]_vars

-----------------------------------------------------------------------------
(* Claims about account management *)

\* C14: UpdateUser publishes a UserUpdated event only if at least one field's
\* value actually changed: a successful call whose present fields all equal the
\* values the user already had publishes zero events, and the diff of a
\* published event lists only fields whose old and new values differ.
C14_UpdateEventOnlyOnChange ==
    (call.op = "UpdateUser" /\ IsNil(call.err)) =>
        LET old == RepoGetByID(call.usersBefore, call.req.userID).val IN
        /\ (old.firstName = call.user.firstName /\ old.lastName = call.user.lastName)
               => call.events = <<>>
        /\ \A k \in 1..Len(call.events) :
               \A c \in call.events[k].data.changes : c.old # c.new

\* C15: CreateUser with an email that fails validation returns a
\* ValidationError on field email, never calls userRepo.Create (the store is
\* unchanged and no later read finds the email) and publishes zero events.
C15_InvalidEmailRejected ==
    (call.op = "CreateUser" /\ call.req.email = EmailMalformed) =>
        /\ call.err.kind = "ValidationError"
        /\ call.err.what = "email"
        /\ call.user = NoUser
        /\ call.steps = <<>>
        /\ users = call.usersBefore
        /\ ~IsNil(RepoGetByEmail(users, call.req.email).err)
        /\ call.events = <<>>

C15_Witness ==
    /\ call.op = "CreateUser"
    /\ call.req.email = EmailMalformed
    /\ call.err.kind = "ValidationError"
    /\ Len(users) = 1

\* the operations whose side effects are best effort
BestEffortOps == {"CreateUser", "UpdateUser", "ChangeUserRole", "AuthenticateUser"}

\* what call c gives when run again from the state it started in, with the
\* given faults: the tables it leaves, its error and the user or session it returns
Replay(c, fault) ==
    CASE c.op = "CreateUser" ->
            LET r == CreateUser(c.usersBefore, c.req,
                                NewUUID(c.usersBefore, c.before, held), now, fault) IN
            [users |-> r.store, sessions |-> c.before, err |-> r.err, out |-> r.user]
      [] c.op = "UpdateUser" ->
            LET r == UpdateUser(c.usersBefore, c.req, now, fault) IN
            [users |-> UpdateUserStore(c.repo, c.usersBefore, r), sessions |-> c.before, err |-> r.err, out |-> r.user]
      [] c.op = "ChangeUserRole" ->
            LET r == ChangeUserRole(c.usersBefore, c.req.userID, c.req.role, Actor,
                                    now, fault) IN
            [users |-> r.store, sessions |-> c.before, err |-> r.err, out |-> r.user]
      [] c.op = "AuthenticateUser" ->
            LET r == AuthenticateUser(c.usersBefore, c.before, c.req.email,
                                      c.req.password, IPAddress, UserAgent,
                                      NewUUID(c.usersBefore, c.before, held), now, fault) IN
            [users |-> r.users, sessions |-> r.sessions, err |-> r.err, out |-> r.session]

\* what the last call returned
Returned == IF call.op = "AuthenticateUser" THEN call.session ELSE call.user

\* the last call ran with a failing publisher or, in AuthenticateUser, a
\* failing last-login update
SideEffectFailed ==
    /\ call.op \in BestEffortOps
    /\ \/ call.fault = PublishFault
       \/ call.op = "AuthenticateUser" /\ call.fault = UpdateFault

\* C16 (amended): a failing publisher, and in AuthenticateUser a failing
\* last-login update, never changes what the call returns: same error (nil when
\* the call otherwise succeeds) and same user or session as with the side effect
\* succeeding, and the same sessions table.  The users table is also the same,
\* except that a failed last-login update leaves the user's row as it was
\* before the call.
C16_SideEffectFailureIgnored ==
    SideEffectFailed =>
        LET ok == Replay(call, NoFault) IN
        /\ call.err = ok.err
        /\ Returned = ok.out
        /\ sessions = ok.sessions
        /\ users = IF call.fault = UpdateFault THEN call.usersBefore ELSE ok.users

\* C16 as stated: the persisted state is the same as when the side effect succeeds
C16_SameStateAsSuccess ==
    SideEffectFailed =>
        LET ok == Replay(call, NoFault) IN
        /\ call.err = ok.err
        /\ Returned = ok.out
        /\ sessions = ok.sessions
        /\ users = ok.users

C16_Witness ==
    /\ call.op = "AuthenticateUser"
    /\ call.fault = UpdateFault
    /\ IsNil(call.err)
    /\ call.session # NoSession
    /\ Len(call.warnings) = 1
    /\ Len(sessions) = Len(call.before) + 1

\* the events that report a committed write, and the write each handler reports
ReportingEvents == {EventUserCreated, EventUserUpdated, EventRoleChanged, EventUserLogin}

ReportedWrite(op) ==
    CASE op = "CreateUser" -> "userRepo.Create"
      [] op \in {"UpdateUser", "ChangeUserRole"} -> "userRepo.Update"
      [] op = "AuthenticateUser" -> "sessionRepo.Create"

\* the store was made to fail the write the last call reports
ReportedWriteFails ==
    \/ call.op \in {"CreateUser", "AuthenticateUser"} /\ call.fault.create # "nil"
    \/ call.op \in {"UpdateUser", "ChangeUserRole"} /\ call.fault.update # "nil"

\* the positions of step x in the last call's side effects
StepsAt(x) == {k \in 1..Len(call.steps) : call.steps[k] = x}

\* the write the last call reports is in the tables
ReportedWriteVisible ==
    CASE call.op = "CreateUser" ->
            /\ Len(users) = Len(call.usersBefore) + 1
            /\ UUIDString(users[Len(users)].uuid) = call.events[1].userID
      [] call.op \in {"UpdateUser", "ChangeUserRole"} ->
            /\ RepoGetByID(users, call.req.userID).val = call.user
            /\ UUIDString(call.user.uuid) = call.events[1].userID
      [] call.op = "AuthenticateUser" ->
            /\ Len(sessions) = Len(call.before) + 1
            /\ sessions[Len(sessions)].token = call.session.token

\* C17: a UserCreated, UserUpdated, RoleChanged or UserLoggedIn event is handed
\* to Publish only after the repository write it reports has succeeded: when
\* userRepo.Create, userRepo.Update or sessionRepo.Create fails no such event is
\* published, and each event is handed to Publish once, never again.
C17_EventOnlyAfterCommittedWrite ==
    call.op \in BestEffortOps =>
        LET reporting == {k \in 1..Len(call.events) :
                              call.events[k].type \in ReportingEvents} IN
        /\ Cardinality(StepsAt("eventPub.Publish")) = Len(call.events)
        /\ Len(call.events) <= 1
        /\ ReportedWriteFails => reporting = {}
        /\ reporting # {} =>
               /\ IsNil(call.err)
               /\ ReportedWriteVisible
               /\ Cardinality(StepsAt(ReportedWrite(call.op))) = 1
               /\ \A w \in StepsAt(ReportedWrite(call.op)) :
                      \A k \in StepsAt("eventPub.Publish") : w < k

C17_Witness ==
    /\ call.op = "UpdateUser"
    /\ call.fault = UpdateFault
    /\ call.steps = <<"userRepo.Update">>
    /\ ~IsNil(call.err)
    /\ call.events = <<>>

\* C18: after a successful CreateUser the returned user carries the identity
\* the store assigned, different from that of every user created before, and
\* GetUser with that ID returns a user with the same ID, email and username.
C18_CreatedUserReadableByID ==
    (call.op = "CreateUser" /\ IsNil(call.err)) =>
        LET got == GetUser(users, call.user.id) IN
        /\ \A i \in 1..Len(call.usersBefore) : call.usersBefore[i].id # call.user.id
        /\ IsNil(got.err)
        /\ got.user.id = call.user.id
        /\ got.user.email = call.user.email
        /\ got.user.username = call.user.username

\* C19: ChangeUserRole with a valid role on an existing user persists the new
\* role and publishes exactly one RoleChanged event carrying the role held
\* before the call, the new role and changedBy; with a role outside
\* {user, admin, moderator} or an unknown user ID it returns an error, never
\* calls userRepo.Update and publishes nothing.
C19_ChangeUserRole ==
    call.op = "ChangeUserRole" =>
        LET before == RepoGetByID(call.usersBefore, call.req.userID) IN
        IF ~IsNil(before.err) \/ call.req.role \notin {"user", "admin", "moderator"}
        THEN /\ ~IsNil(call.err)
             /\ StepsAt("userRepo.Update") = {}
             /\ users = call.usersBefore
             /\ call.events = <<>>
        ELSE call.fault.update = "nil" =>
             /\ IsNil(call.err)
             /\ call.user.role = call.req.role
             /\ RepoGetByID(users, call.req.userID).val.role = call.req.role
             /\ Len(call.events) = 1
             /\ call.events[1].type = EventRoleChanged
             /\ call.events[1].data.oldRole = before.val.role
             /\ call.events[1].data.newRole = call.req.role
             /\ call.events[1].data.changedBy = Actor

C19_Witness ==
    /\ call.op = "ChangeUserRole"
    /\ call.req.role = UserRoleAdmin
    /\ IsNil(call.err)
    /\ Len(call.usersBefore) >= 1
    /\ call.usersBefore[1].role = UserRoleUser
    /\ users[1].role = UserRoleAdmin
    /\ Len(call.events) = 1

\* C20: UserRepository.Delete(id) is a logical delete: on an existing user it
\* leaves the user stored and retrievable with status inactive and every other
\* field unchanged, a second Delete(id) leaves the state unchanged, and no row
\* of the users table is removed.
C20_DeleteIsLogical ==
    call.op = "Delete" =>
        LET before == RepoGetByID(call.usersBefore, call.id)
            after == RepoGetByID(users, call.id)
        IN
        /\ Len(users) = Len(call.usersBefore)
        /\ IsNil(before.err) =>
               /\ IsNil(call.err)
               /\ IsNil(after.err)
               /\ after.val.status = UserStatusInactive
               /\ [after.val EXCEPT !.updatedAt = 0]
                      = [before.val EXCEPT !.status = UserStatusInactive, !.updatedAt = 0]
        /\ RepoDelete(call.adapter, users, call.id, now).store = users

-----------------------------------------------------------------------------
(* The User entity on its own (entities/user.go): one user built by NewUser *)
(* from typed values and then changed by its mutation methods while the     *)
(* clock runs.  held is the entity, call the last method called.            *)

StatusDeleted == "deleted"
TagX == "x"
TagY == "y"

EntityBase ==
    [email |-> EmailA, username |-> UsernameBob, password |-> HashH,
     firstName |-> FirstNameJ, lastName |-> LastNameD,
     status |-> UserStatusActive, role |-> UserRoleUser, tags |-> <<>>]

\* the arguments NewUser is called with: values out of the constructors, the
\* zero value a failed constructor leaves behind, plain casts of a raw string,
\* and tag lists with and without a repeated tag
EntityInputs ==
    {EntityBase,
     [EntityBase EXCEPT !.status = UserStatusPending],
     [EntityBase EXCEPT !.status = StatusDeleted],
     [EntityBase EXCEPT !.role = RoleRoot],
     [EntityBase EXCEPT !.email = <<>>],
     [EntityBase EXCEPT !.username = <<"a", "b">>],
     [EntityBase EXCEPT !.firstName = <<>>],
     [EntityBase EXCEPT !.lastName = <<>>],
     [EntityBase EXCEPT !.tags = <<TagX, TagY>>],
     [EntityBase EXCEPT !.tags = <<TagX, TagX>>]}

EntNewUser(in) ==
    /\ held = NoHeld
    /\ LET r == NewUser(in.email, in.username, in.password, in.firstName, in.lastName,
                        in.status, in.role, in.tags, 1, now) IN
       /\ held' = IF IsNil(r.err) THEN r.val ELSE held
       /\ call' = [op |-> "NewUser", arg |-> in, err |-> r.err]
    /\ UNCHANGED <<users, sessions, now, ticks, procs>>

EntChangeStatus(status) ==
    /\ held # NoHeld
    /\ LET r == ChangeStatus(held, status, now) IN
       /\ held' = r.val
       /\ call' = [op |-> "ChangeStatus", arg |-> status, err |-> r.err]
    /\ UNCHANGED <<users, sessions, now, ticks, procs>>

EntChangeRole(role) ==
    /\ held # NoHeld
    /\ LET r == ChangeRole(held, role, now) IN
       /\ held' = r.val
       /\ call' = [op |-> "ChangeRole", arg |-> role, err |-> r.err]
    /\ UNCHANGED <<users, sessions, now, ticks, procs>>

EntUpdateProfile(firstName) ==
    /\ held # NoHeld
    /\ held' = UpdateProfileFirstName(held, firstName, now)
    /\ call' = [op |-> "UpdateProfile", arg |-> firstName, err |-> NoError]
    /\ UNCHANGED <<users, sessions, now, ticks, procs>>

EntVerify ==
    /\ held # NoHeld
    /\ held' = Verify(held, now)
    /\ call' = [op |-> "Verify", arg |-> <<>>, err |-> NoError]
    /\ UNCHANGED <<users, sessions, now, ticks, procs>>

EntRecordLogin ==
    /\ held # NoHeld
    /\ held' = RecordLogin(held, now)
    /\ call' = [op |-> "RecordLogin", arg |-> <<>>, err |-> NoError]
    /\ UNCHANGED <<users, sessions, now, ticks, procs>>

EntAddTag(tag) ==
    /\ held # NoHeld
    /\ Len(held.tags) < MaxTags
    /\ held' = AddTag(held, tag, now)
    /\ call' = [op |-> "AddTag", arg |-> tag, err |-> NoError]
    /\ UNCHANGED <<users, sessions, now, ticks, procs>>

EntRemoveTag(tag) ==
    /\ held # NoHeld
    /\ held' = RemoveTag(held, tag, now)
    /\ call' = [op |-> "RemoveTag", arg |-> tag, err |-> NoError]
    /\ UNCHANGED <<users, sessions, now, ticks, procs>>

EntTick ==
    /\ ticks < MaxEntityTicks
    /\ now' = now + 1
    /\ ticks' = ticks + 1
    /\ call' = [op |-> "Tick", arg |-> <<>>, err |-> NoError]
    /\ UNCHANGED <<users, sessions, procs, held>>

InitEntity ==
    /\ users = <<>>
    /\ sessions = <<>>
    /\ now = 0
    /\ ticks = 0
    /\ procs = [p \in Procs |-> IdleProc]
    /\ held = NoHeld
    /\ call = NoCall

NextEntity ==
    \/ \E in \in EntityInputs : EntNewUser(in)
    \/ \E status \in {UserStatusSuspended, UserStatusActive, StatusDeleted} :
           EntChangeStatus(status)
    \/ \E role \in {UserRoleAdmin, RoleRoot} : EntChangeRole(role)
    \/ EntUpdateProfile(FirstNameK)
    \/ EntVerify
    \/ EntRecordLogin
    \/ \E tag \in {TagX, TagY} : EntAddTag(tag)
    \/ \E tag \in {TagX, TagY} : EntRemoveTag(tag)
    \/ EntTick

SpecEntity == InitEntity /\ [][NextEntity]_vars

-----------------------------------------------------------------------------
(* Claims about the User entity *)

\* a rejected ChangeStatus or ChangeRole: the step calls one of them with a
\* value outside its set
RejectedEnumStep ==
    \/ call'.op = "ChangeStatus"
           /\ call'.arg \notin {"active", "inactive", "suspended", "pending"}
    \/ call'.op = "ChangeRole" /\ call'.arg \notin {"user", "admin", "moderator"}

\* C21: every user reachable through NewUser followed by ChangeStatus and
\* ChangeRole calls has a status in {active, inactive, suspended, pending} and
\* a role in {user, admin, moderator}; a call with a value outside the set
\* returns a ValidationError and leaves every field unchanged; and IsActive()
\* is true exactly when the status is active.
C21_EnumsStayClosed ==
    /\ [](held # NoHeld =>
            /\ held.status \in {"active", "inactive", "suspended", "pending"}
            /\ held.role \in {"user", "admin", "moderator"}
            /\ UserIsActive(held) <=> held.status = "active")
    /\ [][RejectedEnumStep =>
            /\ call'.err.kind = "ValidationError"
            /\ held' = held]_vars

C21_Witness ==
    /\ call.op = "ChangeStatus"
    /\ call.arg = StatusDeleted
    /\ call.err.kind = "ValidationError"
    /\ held # NoHeld
    /\ held.status = UserStatusSuspended
    /\ held.role = UserRoleAdmin

\* the arguments of the last NewUser call that a constructor or IsValid rejects
InvalidArguments(in) ==
    {f \in {"email", "username", "firstName", "lastName", "status", "role"} :
        CASE f = "email" -> ~IsNil(NewEmail(in.email).err)
          [] f = "username" -> ~IsNil(NewUsername(in.username).err)
          [] f = "firstName" -> ~IsNil(NewFirstName(in.firstName).err)
          [] f = "lastName" -> ~IsNil(NewLastName(in.lastName).err)
          [] f = "status" -> in.status \notin {"active", "inactive", "suspended", "pending"}
          [] f = "role" -> in.role \notin {"user", "admin", "moderator"}}

\* C22: constructing a user is all-or-nothing: if any of email, username,
\* first name, last name, status or role is invalid, NewUser returns an error
\* and a nil user; otherwise it returns a user carrying exactly the given
\* values, with IsVerified false and UpdatedAt equal to CreatedAt.
C22_NewUserAllOrNothing ==
    call.op = "NewUser" =>
        IF InvalidArguments(call.arg) # {}
        THEN ~IsNil(call.err) /\ held = NoHeld
        ELSE /\ IsNil(call.err)
             /\ held # NoHeld
             /\ held.email = call.arg.email
             /\ held.username = call.arg.username
             /\ held.firstName = call.arg.firstName
             /\ held.lastName = call.arg.lastName
             /\ held.status = call.arg.status
             /\ held.role = call.arg.role
             /\ held.tags = call.arg.tags
             /\ ~held.isVerified
             /\ held.updatedAt = held.createdAt

\* the User mutation methods
MutationMethods ==
    {"ChangeStatus", "ChangeRole", "UpdateProfile", "Verify", "RecordLogin",
     "AddTag", "RemoveTag"}

\* C27: every User mutation method (ChangeStatus, ChangeRole, UpdateProfile,
\* Verify, RecordLogin, AddTag, RemoveTag) that changes the user sets UpdatedAt
\* to the time of the call; across any sequence of calls UpdatedAt never
\* decreases and is never earlier than CreatedAt, and CreatedAt, UUID, ID,
\* email and username never change.
C27_UpdatedAtFollowsMutations ==
    /\ [](held # NoHeld => held.updatedAt >= held.createdAt)
    /\ [][held # NoHeld =>
            /\ held'.updatedAt >= held.updatedAt
            /\ held'.createdAt = held.createdAt
            /\ held'.uuid = held.uuid
            /\ held'.id = held.id
            /\ held'.email = held.email
            /\ held'.username = held.username
            /\ (call'.op \in MutationMethods /\ held' # held) => held'.updatedAt = now
            /\ call'.op \notin MutationMethods => held' = held]_vars

C27_Witness ==
    /\ call.op = "Verify"
    /\ held # NoHeld
    /\ held.isVerified
    /\ held.updatedAt = now
    /\ held.updatedAt > held.createdAt

\* tag list s without tag t, the other tags in their order
WithoutTag(s, t) == SelectSeq(s, LAMBDA x : x # t)

\* C28: for a user created by NewUser, after any sequence of AddTag and
\* RemoveTag calls the tag list contains no tag twice; AddTag of a tag already
\* present changes nothing, AddTag of an absent tag appends it at the end, and
\* after RemoveTag(t) the list does not contain t while the remaining tags keep
\* their relative order.
C28_TagsAreASet ==
    /\ [](held # NoHeld =>
            \A i, j \in 1..Len(held.tags) : held.tags[i] = held.tags[j] => i = j)
    /\ [][/\ call'.op = "AddTag" =>
                IF TagAt(held.tags, call'.arg) # {} THEN held' = held
                ELSE held'.tags = Append(held.tags, call'.arg)
          /\ call'.op = "RemoveTag" =>
                /\ TagAt(held'.tags, call'.arg) = {}
                /\ held'.tags = WithoutTag(held.tags, call'.arg)]_vars

-----------------------------------------------------------------------------
(* Type converters (adapters/converters/types.go) and the adapters' error   *)
(* translation.  A database value (interface{}) is a record: t is its       *)
(* dynamic type, v the value.  A UUID is a number; its byte form is its two  *)
(* binary digits, its text form UUIDString.                                 *)

Null == [t |-> "null", v |-> <<>>]

DB(t, v) == [t |-> t, v |-> v]

NewConversionError(message) ==
    [kind |-> "ConversionError", what |-> "", msg |-> message, wrap |-> ""]

\* uuid[:] and uuid.FromBytes
UUIDBytes(u) == <<u \div 2, u % 2>>

UUIDFromBytes(b) ==
    IF Len(b) = 2 THEN [val |-> 2 * b[1] + b[2], err |-> NoError]
    ELSE [val |-> NilUUID, err |-> ErrInvalidUUID]

SQLiteUUIDDomainToDB(domain) ==
    IF domain = NilUUID THEN Null ELSE DB("string", UUIDString(domain))

SQLiteUUIDDBToDomain(db) ==
    IF db.t = "null" THEN [val |-> NilUUID, err |-> NoError]
    ELSE IF db.t # "string"
    THEN [val |-> NilUUID, err |-> NewConversionError("expected string for UUID")]
    ELSE ParseUUID(db.v)

PostgresUUIDDomainToDB(domain) == DB("uuid", domain)

PostgresUUIDDBToDomain(db) ==
    CASE db.t = "null" -> [val |-> NilUUID, err |-> NoError]
      [] db.t = "uuid" -> [val |-> db.v, err |-> NoError]
      [] db.t = "string" -> ParseUUID(db.v)
      [] OTHER -> [val |-> NilUUID, err |-> NewConversionError("expected UUID or string")]

MySQLUUIDDomainToDB(domain) == DB("bytes", UUIDBytes(domain))

\* the MySQL converter reading text only
MySQLUUIDDBToDomain_TextOnly(db) ==
    CASE db.t = "null" -> [val |-> NilUUID, err |-> NoError]
      [] db.t = "string" -> ParseUUID(db.v)
      [] OTHER -> [val |-> NilUUID,
                   err |-> NewConversionError("expected bytes or string for UUID")]

MySQLUUIDDBToDomain(db) ==
    CASE db.t = "null" -> [val |-> NilUUID, err |-> NoError]
      [] db.t = "bytes" -> UUIDFromBytes(db.v)
      [] db.t = "string" -> ParseUUID(db.v)
      [] OTHER -> [val |-> NilUUID,
                   err |-> NewConversionError("expected bytes or string for UUID")]

\* time.Time.IsZero; the zero time is hour 0
TimeIsZero(t) == t = 0

TimeDomainToDB(domain) == IF TimeIsZero(domain) THEN Null ELSE DB("time", domain)

\* a time.Time comes back as it is; text is parsed as RFC 3339, which the
\* converter itself never writes
TimeDBToDomain(db) ==
    CASE db.t = "null" -> [val |-> 0, err |-> NoError]
      [] db.t = "time" -> [val |-> db.v, err |-> NoError]
      [] OTHER -> [val |-> 0, err |-> NewConversionError("expected time or string")]

BoolDomainToDB(domain) == DB("bool", domain)

BoolDBToDomain(db) ==
    CASE db.t = "null" -> [val |-> FALSE, err |-> NoError]
      [] db.t = "bool" -> [val |-> db.v, err |-> NoError]
      [] db.t = "int" -> [val |-> db.v # 0, err |-> NoError]
      [] db.t = "string" -> [val |-> db.v \in {"true", "1"}, err |-> NoError]
      [] OTHER -> [val |-> FALSE,
                   err |-> NewConversionError("expected bool, int, or string")]

StatusDomainToDB(domain) == domain

StatusDBToDomain(db) ==
    IF ~UserStatusIsValid(db)
    THEN [val |-> UserStatusActive, err |-> NewConversionError("invalid user status")]
    ELSE [val |-> db, err |-> NoError]

RoleDomainToDB(domain) == domain

RoleDBToDomain(db) ==
    IF ~UserRoleIsValid(db)
    THEN [val |-> UserRoleUser, err |-> NewConversionError("invalid user role")]
    ELSE [val |-> db, err |-> NoError]

SessionTokenDomainToDB(domain) == DB("string", UUIDString(domain))

SessionTokenDBToDomain(db) ==
    CASE db.t = "string" ->
            IF IsNil(ParseUUID(db.v).err) THEN ParseUUID(db.v)
            ELSE [val |-> NilUUID, err |-> NewConversionError("invalid UUID format")]
      [] db.t = "uuid" -> [val |-> db.v, err |-> NoError]
      [] db.t = "bytes" ->
            IF IsNil(UUIDFromBytes(db.v).err) THEN UUIDFromBytes(db.v)
            ELSE [val |-> NilUUID, err |-> NewConversionError("invalid UUID bytes")]
      [] OTHER -> [val |-> NilUUID,
                   err |-> NewConversionError("expected string, UUID, or bytes")]

Converters ==
    {"sqlite-uuid", "postgres-uuid", "mysql-uuid", "time", "bool", "status", "role",
     "session-token"}

DomainToDB(conv, v) ==
    CASE conv = "sqlite-uuid" -> SQLiteUUIDDomainToDB(v)
      [] conv = "postgres-uuid" -> PostgresUUIDDomainToDB(v)
      [] conv = "mysql-uuid" -> MySQLUUIDDomainToDB(v)
      [] conv = "time" -> TimeDomainToDB(v)
      [] conv = "bool" -> BoolDomainToDB(v)
      [] conv = "status" -> StatusDomainToDB(v)
      [] conv = "role" -> RoleDomainToDB(v)
      [] conv = "session-token" -> SessionTokenDomainToDB(v)

DBToDomain(conv, db) ==
    CASE conv = "sqlite-uuid" -> SQLiteUUIDDBToDomain(db)
      [] conv = "postgres-uuid" -> PostgresUUIDDBToDomain(db)
      [] conv = "mysql-uuid" -> MySQLUUIDDBToDomain(db)
      [] conv = "time" -> TimeDBToDomain(db)
      [] conv = "bool" -> BoolDBToDomain(db)
      [] conv = "status" -> StatusDBToDomain(db)
      [] conv = "role" -> RoleDBToDomain(db)
      [] conv = "session-token" -> SessionTokenDBToDomain(db)

\* handleMySQLError: driver error -> domain error
handleMySQLError(dberr, operation) ==
    CASE dberr = "nil" -> NoError
      [] dberr = "norows" -> ErrUserNotFound
      [] dberr = "1062" -> ErrUserAlreadyExists
      [] dberr = "1452" ->
            NewValidationError("foreign_key", "referenced entity does not exist")
      [] dberr = "3819" ->
            NewValidationError("check_constraint", "check constraint violated")
      [] OTHER -> NewDatabaseError(operation, dberr)

\* SQLiteUserRepository.handleError with isUniqueConstraintError
handleSQLiteError(dberr, operation) ==
    CASE dberr = "nil" -> NoError
      [] dberr = "norows" -> ErrUserNotFound
      [] dberr \in {"UNIQUE constraint failed", "column ... is not unique"} ->
            ErrUserAlreadyExists
      [] OTHER -> NewDatabaseError(operation, dberr)

\* what each engine's driver reports for a class of storage error
DriverErrors(adapter, class) ==
    CASE class = "nil" -> {"nil"}
      [] class = "norows" -> {"norows"}
      [] class = "other" -> {"connection refused"}
      [] adapter = "postgres" ->
            (CASE class = "unique" -> {"23505"}
               [] class = "foreign_key" -> {"23503"}
               [] class = "check" -> {"23514"})
      [] adapter = "mysql" ->
            (CASE class = "unique" -> {"1062"}
               [] class = "foreign_key" -> {"1452"}
               [] class = "check" -> {"3819"})
      [] adapter = "sqlite" ->
            (CASE class = "unique" ->
                    {"UNIQUE constraint failed", "UNIQUE constraint failed: users.email"}
               [] class = "foreign_key" -> {"FOREIGN KEY constraint failed"}
               [] class = "check" -> {"CHECK constraint failed: status"})

handleError(adapter, dberr, operation) ==
    CASE adapter = "postgres" -> handlePostgresError(dberr, operation)
      [] adapter = "mysql" -> handleMySQLError(dberr, operation)
      [] adapter = "sqlite" -> handleSQLiteError(dberr, operation)

-----------------------------------------------------------------------------
(* The value-object constructor, the converters and the error translation   *)
(* applied to bounded inputs.  held is the input, call the last application. *)

RECURSIVE StringsOver(_, _)
StringsOver(chars, n) ==
    IF n = 0 THEN {<<>>}
    ELSE StringsOver(chars, n - 1)
         \cup {<<c>> \o s : c \in chars, s \in {x \in StringsOver(chars, n - 1) : Len(x) = n - 1}}

UsernameInputs ==
    StringsOver({"a", " "}, MaxNameLen)
    \cup {Repeat("a", MaxUsernameLen), Repeat("a", MaxUsernameLen + 1),
          <<" ">> \o Repeat("a", MaxUsernameLen),
          <<" ">> \o Repeat("a", MaxUsernameLen + 1)}

StoredStrings ==
    UserStatuses \cup UserRoles \cup {"deleted", "root", "ACTIVE", ""}

ErrorClasses == {"nil", "norows", "unique", "foreign_key", "check", "other"}

DBAdapters == {"postgres", "mysql", "sqlite"}

ConvertInputs ==
    {[kind |-> "username", v |-> s] : s \in UsernameInputs}
    \cup {[kind |-> "uuid", v |-> u] : u \in 0..MaxUUID}
    \cup {[kind |-> "time", v |-> t] : t \in 0..MaxTimeValue}
    \cup {[kind |-> "bool", v |-> b] : b \in BOOLEAN}
    \cup {[kind |-> "status", v |-> s] : s \in UserStatuses}
    \cup {[kind |-> "role", v |-> r] : r \in UserRoles}
    \cup {[kind |-> "stored", v |-> s] : s \in StoredStrings}
    \cup {[kind |-> "class", v |-> c] : c \in ErrorClasses}

\* the domain type each converter works on
ConverterKind(conv) ==
    CASE conv \in {"sqlite-uuid", "postgres-uuid", "mysql-uuid", "session-token"} -> "uuid"
      [] OTHER -> conv

ConvApplied(op, arg, stored, out) ==
    [op |-> op, arg |-> arg, stored |-> stored, out |-> out]

CvNewUsername ==
    /\ held.kind = "username"
    /\ call.op = "none"
    /\ call' = ConvApplied("NewUsername", "", Null, NewUsername(held.v))
    /\ UNCHANGED <<users, sessions, now, ticks, procs, held>>

\* a value written with DomainToDB and read back with DBToDomain
CvRoundTrip(conv) ==
    /\ held.kind = ConverterKind(conv)
    /\ call.op = "none"
    /\ call' = ConvApplied("RoundTrip", conv, DomainToDB(conv, held.v),
                           DBToDomain(conv, DomainToDB(conv, held.v)))
    /\ UNCHANGED <<users, sessions, now, ticks, procs, held>>

\* a NULL column read by the time converter
CvReadNull ==
    /\ held.kind = "time"
    /\ call.op = "none"
    /\ call' = ConvApplied("ReadNull", "time", Null, DBToDomain("time", Null))
    /\ UNCHANGED <<users, sessions, now, ticks, procs, held>>

CvStatusDBToDomain ==
    /\ held.kind = "stored"
    /\ call.op = "none"
    /\ call' = ConvApplied("StatusDBToDomain", "status", held.v, StatusDBToDomain(held.v))
    /\ UNCHANGED <<users, sessions, now, ticks, procs, held>>

CvRoleDBToDomain ==
    /\ held.kind = "stored"
    /\ call.op = "none"
    /\ call' = ConvApplied("RoleDBToDomain", "role", held.v, RoleDBToDomain(held.v))
    /\ UNCHANGED <<users, sessions, now, ticks, procs, held>>

CvHandleError(adapter) ==
    /\ held.kind = "class"
    /\ call.op = "none"
    /\ \E dberr \in DriverErrors(adapter, held.v) :
          call' = ConvApplied("handleError", adapter, dberr,
                              handleError(adapter, dberr, "create user"))
    /\ UNCHANGED <<users, sessions, now, ticks, procs, held>>

InitConvert ==
    /\ users = <<>>
    /\ sessions = <<>>
    /\ now = 0
    /\ ticks = 0
    /\ procs = <<>>
    /\ held \in ConvertInputs
    /\ call = ConvApplied("none", "", Null, Null)

NextConvert ==
    \/ CvNewUsername
    \/ \E conv \in Converters : CvRoundTrip(conv)
    \/ CvReadNull
    \/ CvStatusDBToDomain
    \/ CvRoleDBToDomain
    \/ \E adapter \in DBAdapters : CvHandleError(adapter)

SpecConvert == InitConvert /\ [][NextConvert]_vars

\* C23: NewUsername succeeds exactly when the trimmed input has between 3 and
\* 50 characters, fails with a validation error otherwise, and every Username
\* it returns has between 3 and 50 characters.
C23_UsernameLengthAfterTrim ==
    call.op = "NewUsername" =>
        /\ IsNil(call.out.err) <=>
              Len(TrimSpace(held.v)) \in MinUsernameLen..MaxUsernameLen
        /\ ~IsNil(call.out.err) => call.out.err.kind = "ValidationError"
        /\ IsNil(call.out.err) =>
              Len(call.out.val) \in MinUsernameLen..MaxUsernameLen

\* C24: a valid domain value written by a converter and read back by the same
\* converter comes back unchanged and without error; the time converter
\* stores the zero time, and no other time, as NULL and reads NULL as the zero
\* time.
C24_ConverterRoundTrip ==
    /\ call.op = "RoundTrip" => call.out = [val |-> held.v, err |-> NoError]
    /\ call.op = "RoundTrip" /\ call.arg = "time" =>
          (call.stored.t = "null" <=> TimeIsZero(held.v))
    /\ call.op = "ReadNull" =>
          /\ IsNil(call.out.err)
          /\ TimeIsZero(call.out.val)

C24_Witness ==
    /\ call.op = "RoundTrip"
    /\ call.arg = "mysql-uuid"
    /\ held.v # NilUUID
    /\ call.stored = DB("bytes", UUIDBytes(held.v))
    /\ call.out.val = held.v

\* C25: for a stored string outside the closed set, the status and role
\* converters fail with a ConversionError and yield no default value (never
\* active, never user).
C25_NoDefaultForUnknownEnum ==
    /\ call.op = "StatusDBToDomain" /\ held.v \notin UserStatuses =>
          /\ call.out.err.kind = "ConversionError"
          /\ call.out.val # UserStatusActive
    /\ call.op = "RoleDBToDomain" /\ held.v \notin UserRoles =>
          /\ call.out.err.kind = "ConversionError"
          /\ call.out.val # UserRoleUser

\* the domain kind the taxonomy gives each class of storage error
KindOfClass(class) ==
    CASE class = "nil" -> "nil"
      [] class = "norows" -> "NotFoundError"
      [] class = "unique" -> "ConflictError"
      [] class \in {"foreign_key", "check"} -> "ValidationError"
      [] OTHER -> "InternalError"

\* C26: each of the three adapters translates every class of storage error to
\* the same domain kind (nil, NotFoundError, ConflictError, ValidationError,
\* or an internal error wrapping the cause), so the adapters agree.
C26_AdaptersTranslateAlike ==
    call.op = "handleError" =>
        /\ call.out.kind = KindOfClass(held.v)
        /\ call.out.kind = "InternalError" => call.out.what = call.stored

-----------------------------------------------------------------------------
(* Claims about a failed update and about the in-memory publisher *)

\* C29: when UpdateUser returns an error, no field of the failed request is
\* visible afterwards: GetUser for the same ID returns the user exactly as it
\* was before the call, even when an earlier field of the request was valid
\* and had been applied to the loaded entity.
C29_FailedUpdateLeavesNoTrace ==
    (call.op = "UpdateUser" /\ ~IsNil(call.err)) =>
        GetUser(users, call.req.userID) = GetUser(call.usersBefore, call.req.userID)

-----------------------------------------------------------------------------
(* InMemoryEventPublisher shared by callers that run concurrently.  held is  *)
(* p.events.  Publish is `p.events = append(p.events, event)` with no lock:  *)
(* a caller reads the slice and later stores the appended slice, and other   *)
(* callers run in between.  call is the set of events whose Publish or       *)
(* PublishBatch has returned since construction; ticks counts Clear calls.   *)

Publishers == 1..NumPublishers

\* the k-th event caller c publishes
EventOf(c, k) == [by |-> c, seq |-> k]

IdlePublisher == [pc |-> "idle", read |-> <<>>, batch |-> <<>>, done |-> 0]

\* Publish, first half: the caller loads p.events
PubPublishRead(c) ==
    /\ procs[c].pc = "idle"
    /\ procs[c].done < MaxPublished
    /\ procs' = [procs EXCEPT ![c].pc = "append", ![c].read = held,
                              ![c].batch = <<EventOf(c, procs[c].done + 1)>>]
    /\ UNCHANGED <<users, sessions, now, ticks, held, call>>

\* PublishBatch of two events, first half
PubPublishBatchRead(c) ==
    /\ procs[c].pc = "idle"
    /\ procs[c].done + 2 <= MaxPublished
    /\ procs' = [procs EXCEPT ![c].pc = "append", ![c].read = held,
                              ![c].batch = <<EventOf(c, procs[c].done + 1),
                                             EventOf(c, procs[c].done + 2)>>]
    /\ UNCHANGED <<users, sessions, now, ticks, held, call>>

\* second half: the caller stores the slice it read with its events appended,
\* and returns nil
PubAppendStore(c) ==
    /\ procs[c].pc = "append"
    /\ held' = procs[c].read \o procs[c].batch
    /\ call' = call \cup {procs[c].batch[i] : i \in 1..Len(procs[c].batch)}
    /\ procs' = [procs EXCEPT ![c].pc = "idle", ![c].read = <<>>, ![c].batch = <<>>,
                              ![c].done = procs[c].done + Len(procs[c].batch)]
    /\ UNCHANGED <<users, sessions, now, ticks>>

\* Clear: p.events = make([]*UserEvent, 0)
PubClear ==
    /\ ticks = 0
    /\ held' = <<>>
    /\ ticks' = ticks + 1
    /\ UNCHANGED <<users, sessions, now, procs, call>>

\* Events()
Events == held

InitPublisher ==
    /\ users = <<>>
    /\ sessions = <<>>
    /\ now = 0
    /\ ticks = 0
    /\ procs = [c \in Publishers |-> IdlePublisher]
    /\ held = <<>>
    /\ call = {}

NextPublisher ==
    \/ \E c \in Publishers : PubPublishRead(c)
    \/ \E c \in Publishers : PubPublishBatchRead(c)
    \/ \E c \in Publishers : PubAppendStore(c)
    \/ PubClear

SpecPublisher == InitPublisher /\ [][NextPublisher]_vars

\* C30: while Clear has not been called, every event published concurrently
\* on one InMemoryEventPublisher appears exactly once in Events() (none lost,
\* none duplicated), and one caller's events appear in the order that caller
\* published them.
C30_ConcurrentPublishKeepsEvents ==
    ticks = 0 =>
        /\ \A e \in call : Cardinality({i \in 1..Len(Events) : Events[i] = e}) = 1
        /\ \A i, j \in 1..Len(Events) :
              (i < j /\ Events[i].by = Events[j].by) => Events[i].seq < Events[j].seq

====
